---- MODULE Spec2Model ----
(***************************************************************************)
(* The waiting and retrying core of lib/galaxy/selenium/navigates_galaxy.py *)
(* as a state machine.  One behaviour is one call of one operation of the   *)
(* core, made by a single-threaded test: Init draws the operation and its   *)
(* inputs, the actions are the steps of its code.  Time is in milliseconds  *)
(* and advances only while the calling thread sleeps.                       *)
(***************************************************************************)
EXTENDS Integers, Sequences, FiniteSets, TLC

\* ------------------------------------------------------------------ bounds
\* Largest `attempts` argument tried besides the default.
MaxAttempts == 2
\* timeout_multiplier ranges over 1..MaxMultiplier.
MaxMultiplier == 2
\* Largest timeoutSeconds of a direct pollUntil call.
MaxTimeout == 2
\* Largest number of leading not-ready answers of a scripted condition.
MaxNotReady == 5
\* The history's hids are drawn from 1..MaxHid.
MaxHid == 2
\* allowed_force_refreshes ranges over 0..MaxRefreshes.
MaxRefreshes == 2
\* A tour script has 1..MaxSteps steps.
MaxSteps == 3

\* A session makes at most MaxCalls calls of the wait clock.
MaxCalls == 4

\* A wrapped function is called at most MaxWrappedCalls + 1 times in a row.
MaxWrappedCalls == 2

\* The tours run next to the other operations have at most MaxAllSteps steps.
MaxAllSteps == 2

\* submit_login is called with retries up to MaxRetries.
MaxRetries == 3

\* -------------------------------------------------------- program constants
\* .1 second, in milliseconds.
RETRY_DURING_TRANSITIONS_SLEEP_DEFAULT == 100
RETRY_DURING_TRANSITIONS_ATTEMPTS_DEFAULT == 10

\* WaitType.default_length of every entry of the catalog, in seconds.
WAIT_TYPES ==
  [ UX_RENDER |-> 1, UX_TRANSITION |-> 5, UX_POPUP |-> 15,
    DATABASE_OPERATION |-> 10, JOB_COMPLETION |-> 30, GIE_SPAWN |-> 30,
    SHED_SEARCH |-> 30, REPO_INSTALL |-> 60, HISTORY_POLL |-> 3 ]

\* The wait type of the operations that name none.
DEFAULT_WAIT_TYPE == "DATABASE_OPERATION"

\* The short fixed interval pollUntil sleeps between two evaluations, in ms.
PollInterval == 500

\* A duration in seconds as milliseconds of the model's clock.
Seconds(s) == s * 1000

\* ------------------------------------------------------------------- values
Operations == {"retry_call_during_transitions", "pollUntil",
               "wait_for_history", "wait_for_history_to_have_hid"}

\* The failure kinds the browser driver, the HTTP client and the core raise.
ErrorKinds == {"StaleElement", "NotClickable", "Timeout", "AssertionError", "Other"}

Err(kind, msg, at, info) == [kind |-> kind, msg |-> msg, at |-> at, info |-> info]
NoError == Err("none", "", 0, {})

\* A timed wait: the site that issued it, the WaitType it was resolved from
\* ("none": a fixed amount) and its length in ms.
TimedWait(site, intent, ms) == [site |-> site, intent |-> intent, ms |-> ms]

\* Results an operation wrapped by the retry executor may return.
Values == {"v1", "v2"}

\* States the history API reports.
HistoryStates == {"new", "queued", "running", "ready", "ok", "error", "paused"}

Hids == 1..MaxHid

\* Never: the scripted condition of a direct pollUntil call stays not-ready.
Never == -1

VARIABLES
  op,                 \* the operation this behaviour runs
  pc,                 \* position in its code
  timeout_multiplier, \* NavigatesGalaxy.timeout_multiplier
  now,                \* the clock, ms since the call began
  err,                \* the exception in flight or propagated
  result,             \* the value returned
  \* retry_call_during_transitions
  attempts, sleep, exception_check, previous_attempts,
  succeedAt,          \* f succeeds on this invocation (0: on none)
  fcalls,             \* invocations of f so far
  sleeps,             \* time.sleep calls of the retry loop so far
  firstFailure,       \* the first error f raised
  allEligible,        \* every error f raised so far passed exception_check
  \* pollUntil
  timeout, deadline, pollState, pollResult, lastCond,
  entered,            \* the clock when this pollUntil invocation began
  condCalls,          \* evaluations of the condition in this invocation
  pollId,             \* pollUntil invocations so far
  notReadyFor,        \* the scripted condition: not-ready answers before the value
  terminalValue,      \* the value the scripted operation or condition yields
  \* wait_for_history
  assert_ok,
  fetched,            \* the history state the last fetch returned
  firstTerminal,      \* the first fetched state outside the active ones
  \* wait_for_history_to_have_hid
  hid,
  hids,               \* the hids the last content listing returned
  timed,              \* every timed wait issued so far: its site, intent and length
  \* history_panel_wait_for_hid_visible / history_item_wait_for
  allowed_force_refreshes,
  beta,               \* is_beta_history()
  listed,             \* the content listing has the hid (else it never has)
  visibleAfter,       \* forced refreshes after which the panel shows the item
  idChangeAt,         \* forced refresh during which the item gets a new id
  selectorId,         \* what history_item_selector selects by
  attempt,            \* history_item_wait_for's attempt
  refreshes,          \* history_panel_refresh_click calls so far
  visWaits,           \* wait_for_visible calls so far
  refreshFailed,      \* a refresh click raised
  awaiting,           \* what the current poll awaits
  \* run_tour
  steps,              \* tour_dict["steps"]
  skip_steps, sleep_on_steps,
  step_index,         \* the index enumerate(steps) is at
  click_index,        \* the index in the step's preclick or postclick list
  tour_callback,      \* the callback object handle_step is called on
  glitches,           \* click invocations that meet a page in transition
  log,                \* the sub-actions performed so far, in order
  \* wait_length, timeout_for, sleep_for
  asked,              \* the WaitType the call is about
  measured,           \* the lengths returned so far, with the multiplier of each
  \* retry_during_transitions
  pastCalls,          \* the earlier calls: the outcome, whether all retries were used
  \* history_panel_wait_for_hid_state
  stateAfter,         \* forced refreshes after which the item shows the state
  visibilityRefreshes, \* the refreshes made when the wait for the state began
  \* histories_click_advanced_search
  outer_previous_attempts, \* previous_attempts of the outer retry
  outerCalls,         \* calls of the outer retry's f
  outerSleeps,        \* sleeps of the outer retry
  \* submit_login
  assert_valid,       \* the argument assert_valid
  retries,            \* the argument retries of the running call
  depth,              \* the calls of submit_login that wait for a call they made
  submissions,        \* clicks on the submit button of the login form
  notLoggedIns,       \* NotLoggedInException raised by wait_for_logged_in
  loggedInAt,         \* the submission after which wait_for_logged_in returned
  \* upload_build
  clicks,             \* clicks on the build button in this execution of the body
  absentWaits,        \* waits for the button to disappear in this execution
  firstWaitTimedOut   \* the first of them timed out

retryVars == <<attempts, sleep, exception_check, previous_attempts, succeedAt,
               fcalls, sleeps, firstFailure, allEligible>>
pollVars == <<timeout, deadline, pollState, pollResult, lastCond, entered,
              condCalls, pollId>>
scriptVars == <<notReadyFor, terminalValue>>
historyVars == <<assert_ok, fetched, firstTerminal>>
hidVars == <<hid, hids>>
itemVars == <<allowed_force_refreshes, beta, listed, visibleAfter, idChangeAt,
              selectorId, attempt, refreshes, visWaits, refreshFailed, awaiting>>
tourVars == <<steps, skip_steps, sleep_on_steps, step_index, click_index,
              tour_callback, glitches, log>>
clockVars == <<asked, measured>>
wrapVars == <<pastCalls>>
stateVars == <<stateAfter, visibilityRefreshes>>
nestVars == <<outer_previous_attempts, outerCalls, outerSleeps>>
loginVars == <<assert_valid, retries, depth, submissions, notLoggedIns,
               loggedInAt>>
uploadVars == <<clicks, absentWaits, firstWaitTimedOut>>
moreVars == <<nestVars, loginVars, uploadVars>>
extVars == <<itemVars, tourVars, clockVars, wrapVars, stateVars, moreVars>>
vars == <<op, pc, timeout_multiplier, now, err, result, retryVars, pollVars,
          scriptVars, historyVars, hidVars, timed, extVars>>

\* ------------------------------------------------------ TransitionClassifier
\* has_driver.exception_indicates_stale_element: a located element reference
\* is no longer valid.
exception_indicates_stale_element(e) == e.kind = "StaleElement"

\* has_driver.exception_indicates_not_clickable: the element exists but
\* something obscures it.
exception_indicates_not_clickable(e) == e.kind = "NotClickable"

exception_seems_to_indicate_transition_StaleOnly(e) ==
  exception_indicates_stale_element(e)

exception_seems_to_indicate_transition_PlusTimeout(e) ==
  \/ exception_indicates_stale_element(e)
  \/ exception_indicates_not_clickable(e)
  \/ e.kind = "Timeout"

exception_seems_to_indicate_transition(e) ==
  exception_indicates_stale_element(e) \/ exception_indicates_not_clickable(e)

\* The exception_check argument: the default classifier, or a caller's check
\* that accepts every failure.
ExceptionChecks == {"exception_seems_to_indicate_transition", "accept_all"}

ExceptionCheck(chk, e) ==
  IF chk = "exception_seems_to_indicate_transition"
  THEN exception_seems_to_indicate_transition(e)
  ELSE TRUE

\* ------------------------------------------------------------------ WaitClock
wait_length_Additive(wait_type) == WAIT_TYPES[wait_type] + timeout_multiplier

wait_length(wait_type) == WAIT_TYPES[wait_type] * timeout_multiplier

timeout_for_Default(wait_type) == WAIT_TYPES["DATABASE_OPERATION"] * timeout_multiplier

timeout_for_Unscaled(wait_type) == WAIT_TYPES[wait_type]

timeout_for(wait_type) == wait_length(wait_type)

\* -------------------------------------------------------------- RetryExecutor
\* The except clause of retry_call_during_transitions: re-raise or go round.
RetryDecision_CheckIgnored(prev, att, chk, e) ==
  IF prev > att THEN "raise" ELSE "retry"

RetryDecision_OneFewer(prev, att, chk, e) ==
  IF prev + 1 >= att THEN "raise"
  ELSE IF ~ExceptionCheck(chk, e) THEN "raise"
  ELSE "retry"

RetryDecision_AtLeast(prev, att, chk, e) ==
  IF prev >= att THEN "raise"
  ELSE IF ~ExceptionCheck(chk, e) THEN "raise"
  ELSE "retry"

RetryDecision_TwoMore(prev, att, chk, e) ==
  IF prev > att + 1 THEN "raise"
  ELSE IF ~ExceptionCheck(chk, e) THEN "raise"
  ELSE "retry"

RetryDecision(prev, att, chk, e) ==
  IF prev > att THEN "raise"
  ELSE IF ~ExceptionCheck(chk, e) THEN "raise"
  ELSE "retry"

\* retry_call_during_transitions called directly, or by the _retry of a
\* function that retry_during_transitions wraps.
RetryOps == {"retry_call_during_transitions", "retry_during_transitions"}

AttemptsValues == (0..MaxAttempts) \cup {RETRY_DURING_TRANSITIONS_ATTEMPTS_DEFAULT}

\* return f(): invocation number fcalls + 1 of the wrapped operation, which
\* succeeds on invocation succeedAt and raises some failure on every other.
RetryCall ==
  /\ op \in RetryOps
  /\ pc = "r_call"
  /\ fcalls' = fcalls + 1
  /\ \/ /\ fcalls + 1 = succeedAt
        /\ result' = terminalValue
        /\ pc' = "returned"
        /\ UNCHANGED <<err, firstFailure, allEligible>>
     \/ /\ fcalls + 1 # succeedAt
        /\ \E k \in ErrorKinds :
             LET e == Err(k, "", fcalls + 1, {}) IN
               /\ err' = e
               /\ firstFailure' = IF firstFailure = NoError THEN e ELSE firstFailure
               /\ allEligible' = (allEligible /\ ExceptionCheck(exception_check, e))
        /\ pc' = "r_except"
        /\ UNCHANGED result
  /\ UNCHANGED <<op, timeout_multiplier, now, attempts, sleep, exception_check,
                 previous_attempts, succeedAt, sleeps, pollVars, scriptVars,
                 historyVars, hidVars,
                 timed, extVars>>

\* except Exception as e: the two re-raising tests.
RetryExcept ==
  /\ op \in RetryOps
  /\ pc = "r_except"
  /\ pc' = IF RetryDecision(previous_attempts, attempts, exception_check, err) = "raise"
           THEN "raised" ELSE "r_sleep"
  /\ UNCHANGED <<op, timeout_multiplier, now, err, result, retryVars, pollVars,
                 scriptVars, historyVars, hidVars,
                 timed, extVars>>

\* time.sleep(sleep); previous_attempts += 1
RetrySleep ==
  /\ op \in RetryOps
  /\ pc = "r_sleep"
  /\ now' = now + sleep
  /\ timed' = timed \cup {TimedWait("retry_sleep", "none", sleep)}
  /\ sleeps' = sleeps + 1
  /\ previous_attempts' = previous_attempts + 1
  /\ pc' = "r_call"
  /\ UNCHANGED <<op, timeout_multiplier, err, result, attempts, sleep,
                 exception_check, succeedAt, fcalls, firstFailure, allEligible,
                 pollVars, scriptVars, historyVars, hidVars,
                 extVars>>

\* ------------------------------------------------------------------ PollUntil
\* A condition result that is not the not-ready sentinel (Python truthiness:
\* None and False are not ready, a state string or True is a value).
Truthy_Everything(v) == TRUE

Truthy(v) == v \notin {"None", "False"}

\* The deadline test made after a not-ready answer.
DeadlinePassed_AtOrAfter(t, d) == t >= d

DeadlinePassed_Never(t, d) == FALSE

DeadlinePassed_BeforeSleep(t, d) == t + PollInterval >= d

DeadlinePassed(t, d) == t > d

\* pollUntil(conditionFn, timeoutSeconds, context): deadline = now + timeout.
\* intent names the WaitType the caller resolved timeoutSeconds from.
PollEnter(timeoutSeconds, intent) ==
  /\ timed' = timed \cup {TimedWait("timeout", intent, Seconds(timeoutSeconds))}
  /\ timeout' = timeoutSeconds
  /\ entered' = now
  /\ deadline' = now + Seconds(timeoutSeconds)
  /\ pollState' = "POLLING"
  /\ pollResult' = "None"
  /\ lastCond' = "None"
  /\ condCalls' = 0
  /\ pollId' = pollId + 1
  /\ pc' = "p_cond"

\* history_panel_wait_for_hid_state begins with a call of
\* history_panel_wait_for_hid_visible: the steps of the latter run in both.
ItemOps == {"history_panel_wait_for_hid_visible",
            "history_panel_wait_for_hid_state"}

\* Where the caller goes on when the poll has yielded a value.
AfterPollValue ==
  IF op = "wait_for_history" THEN "h_assert"
  ELSE IF op \in ItemOps
       THEN (IF awaiting = "hid" THEN "v_resolve"
             ELSE IF awaiting = "visible" THEN "v_return"
             ELSE IF awaiting = "state" THEN "s_return"
             ELSE "s_message")
  ELSE "returned"

\* Where the caller goes on when the poll has timed out.
AfterPollTimeout_Resolve ==
  IF op = "wait_for_history_to_have_hid" THEN "hh_except"
  ELSE IF op \in ItemOps
       THEN (IF awaiting = "hid" THEN "v_resolve"
             ELSE IF awaiting = "current" THEN "raised"
             ELSE "w_except")
  ELSE "raised"

AfterPollTimeout ==
  IF op = "wait_for_history_to_have_hid" THEN "hh_except"
  ELSE IF op \in ItemOps
       THEN (IF awaiting = "hid" THEN "hh_except"
             ELSE IF awaiting = "current" THEN "raised"
             ELSE "w_except")
  ELSE "raised"

\* One evaluation of the condition that answered v.
PollAnswer(v) ==
  /\ pollState = "POLLING"
  /\ condCalls' = condCalls + 1
  /\ lastCond' = v
  /\ IF Truthy(v)
     THEN /\ pollState' = "SUCCEEDED"
          /\ pollResult' = v
          /\ pc' = AfterPollValue
     ELSE /\ pc' = "p_check"
          /\ UNCHANGED <<pollState, pollResult>>
  /\ UNCHANGED <<timeout, deadline, entered, pollId>>

\* After a not-ready answer: raise the timeout error once the deadline has
\* passed, else sleep the poll interval and evaluate again.
PollCheck ==
  /\ pc = "p_check"
  /\ pollState = "POLLING"
  /\ IF DeadlinePassed(now, deadline)
     THEN /\ pollState' = "TIMED_OUT"
          /\ err' = Err("Timeout", "", pollId, {})
          /\ pc' = AfterPollTimeout
          /\ UNCHANGED <<now, timed>>
     ELSE /\ now' = now + PollInterval
          /\ timed' = timed \cup {TimedWait("poll_sleep", "none", PollInterval)}
          /\ pc' = "p_cond"
          /\ UNCHANGED <<pollState, err>>
  /\ UNCHANGED <<op, timeout_multiplier, result, retryVars, timeout, deadline,
                 pollResult, lastCond, entered, condCalls, pollId, scriptVars,
                 historyVars, hidVars,
                 extVars>>

\* A direct call pollUntil(conditionFn, timeoutSeconds, context).
PollUntilStart ==
  /\ op = "pollUntil"
  /\ pc = "start"
  /\ \E t \in 0..MaxTimeout : PollEnter(t, "none")
  /\ UNCHANGED <<op, timeout_multiplier, now, err, result, retryVars,
                 scriptVars, historyVars, hidVars,
                 extVars>>

\* What evaluation number n of the scripted condition answers: not ready
\* notReadyFor times, then terminalValue, then other values.
ScriptedCondition(n) ==
  IF notReadyFor = Never \/ n <= notReadyFor THEN "None"
  ELSE IF n = notReadyFor + 1 THEN terminalValue
  ELSE "later"

PollUntilCondition ==
  /\ op = "pollUntil"
  /\ pc = "p_cond"
  /\ PollAnswer(ScriptedCondition(condCalls + 1))
  /\ result' = IF pollState' = "SUCCEEDED" THEN pollResult' ELSE result
  /\ UNCHANGED <<op, timeout_multiplier, now, err, retryVars, scriptVars,
                 historyVars, hidVars,
                 timed, extVars>>

\* ---------------------------------------------------------- HistoryStatePoller
ActiveStates == {"running", "queued", "new", "ready"}

history_becomes_terminal_ReadyIsTerminal(state) ==
  IF state \notin {"running", "queued", "new"} THEN state ELSE "None"

\* The condition of wait_for_history applied to the state it fetched.
history_becomes_terminal(state) ==
  IF state \notin ActiveStates THEN state ELSE "None"

\* Where an exception of the condition takes until(): it is not among the
\* ignored ones, so it leaves the wait and the function that called it.
AfterConditionError_NotReady == "p_check"

AfterConditionError == "raised"

\* timeout = self.timeout_for(wait_type=WAIT_TYPES.JOB_COMPLETION), then
\* self.wait(timeout=timeout).until(history_becomes_terminal) begins.
WaitForHistoryStart ==
  /\ op = "wait_for_history"
  /\ pc = "start"
  /\ PollEnter(timeout_for("JOB_COMPLETION"), "JOB_COMPLETION")
  /\ UNCHANGED <<op, timeout_multiplier, now, err, result, retryVars,
                 scriptVars, historyVars, hidVars,
                 extVars>>

\* One evaluation of history_becomes_terminal: the two API reads answer with
\* a state, or one of them fails.
HistoryBecomesTerminal ==
  /\ op = "wait_for_history"
  /\ pc = "p_cond"
  /\ \/ \E state \in HistoryStates :
          /\ fetched' = state
          /\ firstTerminal' = IF firstTerminal = "None" /\ state \notin ActiveStates
                              THEN state ELSE firstTerminal
          /\ PollAnswer(history_becomes_terminal(state))
          /\ UNCHANGED err
     \/ /\ pollState = "POLLING"
        /\ err' = Err("Other", "api_get failed", pollId, {})
        /\ pc' = AfterConditionError
        /\ UNCHANGED <<fetched, firstTerminal, pollVars>>
  /\ UNCHANGED <<op, timeout_multiplier, now, result, retryVars, scriptVars,
                 assert_ok, hidVars,
                 timed, extVars>>

\* What follows the poll in wait_for_history: "raise" the assertion failure
\* or "return" the final state.
AssertOutcome_ErrorOnly(a_ok, final_state) ==
  IF a_ok /\ final_state = "error" THEN "raise" ELSE "return"

AssertOutcome(a_ok, final_state) ==
  IF a_ok /\ final_state # "ok" THEN "raise" ELSE "return"

\* if assert_ok: assert final_state == "ok", final_state; return final_state
WaitForHistoryAssert ==
  /\ op = "wait_for_history"
  /\ pc = "h_assert"
  /\ IF AssertOutcome(assert_ok, pollResult) = "raise"
     THEN /\ err' = Err("AssertionError", pollResult, pollId, {})
          /\ pc' = "raised"
          /\ UNCHANGED result
     ELSE /\ result' = pollResult
          /\ pc' = "returned"
          /\ UNCHANGED err
  /\ UNCHANGED <<op, timeout_multiplier, now, retryVars, pollVars, scriptVars,
                 historyVars, hidVars,
                 timed, extVars>>

\* ------------------------------------------------ wait_for_history_to_have_hid
\* has_driver.prepend_timeout_message: a timeout error whose message is
\* `message` followed by that of e.
prepend_timeout_message(e, message, info) ==
  Err("Timeout", message, e.at, info)

WaitForHidStart ==
  /\ op = "wait_for_history_to_have_hid"
  /\ pc = "start"
  /\ PollEnter(timeout_for("JOB_COMPLETION"), "JOB_COMPLETION")
  /\ UNCHANGED <<op, timeout_multiplier, now, err, result, retryVars,
                 scriptVars, historyVars, hidVars,
                 extVars>>

\* history_has_hid: any([h == hid for h in get_hids()])
history_has_hid(listing) == IF hid \in listing THEN "True" ELSE "False"

HistoryHasHid ==
  /\ op = "wait_for_history_to_have_hid"
  /\ pc = "p_cond"
  /\ \E listing \in SUBSET Hids :
       /\ hids' = listing
       /\ PollAnswer(history_has_hid(listing))
  /\ UNCHANGED <<op, timeout_multiplier, now, err, result, retryVars,
                 scriptVars, historyVars, hid,
                 timed, extVars>>

\* except self.TimeoutException as e: list the hids again and raise the
\* timeout with the message prepended.
WaitForHidExcept ==
  /\ op = "wait_for_history_to_have_hid"
  /\ pc = "hh_except"
  /\ \E listing \in SUBSET Hids :
       /\ hids' = listing
       /\ err' = prepend_timeout_message(
                   err, "Timeout waiting for history to have hid - have hids", listing)
  /\ pc' = "raised"
  /\ UNCHANGED <<op, timeout_multiplier, now, result, retryVars, pollVars,
                 scriptVars, historyVars, hid,
                 timed, extVars>>

\* ------------------------------------------------------------- specification
InitIdle ==
  /\ pc = IF op = "retry_call_during_transitions" THEN "r_call" ELSE "start"
  /\ now = 0
  /\ err = NoError
  /\ result = "None"
  /\ previous_attempts = 0
  /\ fcalls = 0
  /\ sleeps = 0
  /\ firstFailure = NoError
  /\ allEligible = TRUE
  /\ timeout = 0
  /\ deadline = 0
  /\ entered = 0
  /\ pollState = "NONE"
  /\ pollResult = "None"
  /\ lastCond = "None"
  /\ condCalls = 0
  /\ pollId = 0
  /\ fetched = "None"
  /\ firstTerminal = "None"
  /\ hids = {}
  /\ timed = {}
  /\ selectorId = "None"
  /\ attempt = 0
  /\ refreshes = 0
  /\ visWaits = 0
  /\ refreshFailed = FALSE
  /\ awaiting = "none"
  /\ step_index = 0
  /\ click_index = 0
  /\ log = <<>>
  /\ measured = <<>>
  /\ pastCalls = <<>>
  /\ visibilityRefreshes = Never
  /\ outer_previous_attempts = 0
  /\ outerCalls = 0
  /\ outerSleeps = 0
  /\ depth = 0
  /\ submissions = 0
  /\ notLoggedIns = 0
  /\ loggedInAt = Never
  /\ clicks = 0
  /\ absentWaits = 0
  /\ firstWaitTimedOut = FALSE

\* The inputs of the operations a behaviour does not run.
NoItemInputs ==
  /\ allowed_force_refreshes = 0
  /\ beta = FALSE
  /\ listed = TRUE
  /\ visibleAfter = 0
  /\ idChangeAt = Never
  /\ stateAfter = Never

NoLoginInputs ==
  /\ assert_valid = TRUE
  /\ retries = 0

NoTourInputs ==
  /\ steps = <<>>
  /\ skip_steps = {}
  /\ sleep_on_steps = <<>>
  /\ tour_callback = "None"
  /\ glitches = 0

Init ==
  /\ op \in Operations
  /\ InitIdle
  /\ sleep = RETRY_DURING_TRANSITIONS_SLEEP_DEFAULT
  /\ IF op = "retry_call_during_transitions"
     THEN /\ attempts \in AttemptsValues
          /\ exception_check \in ExceptionChecks
          /\ succeedAt \in 0..(attempts + 3)
     ELSE /\ attempts = RETRY_DURING_TRANSITIONS_ATTEMPTS_DEFAULT
          /\ exception_check = "exception_seems_to_indicate_transition"
          /\ succeedAt = 0
  /\ IF op = "pollUntil"
     THEN notReadyFor \in (0..MaxNotReady) \cup {Never}
     ELSE notReadyFor = Never
  /\ IF op \in {"pollUntil", "retry_call_during_transitions"}
     THEN terminalValue \in Values
     ELSE terminalValue = "v1"
  /\ IF op \in {"wait_for_history", "wait_for_history_to_have_hid"}
     THEN timeout_multiplier \in 1..MaxMultiplier
     ELSE timeout_multiplier = 1
  /\ IF op = "wait_for_history" THEN assert_ok \in BOOLEAN ELSE assert_ok = TRUE
  /\ IF op = "wait_for_history_to_have_hid" THEN hid \in Hids ELSE hid = 1
  /\ NoItemInputs
  /\ NoTourInputs
  /\ NoLoginInputs
  /\ asked = "DATABASE_OPERATION"

Next ==
  \/ RetryCall
  \/ RetryExcept
  \/ RetrySleep
  \/ PollUntilStart
  \/ PollUntilCondition
  \/ PollCheck
  \/ WaitForHistoryStart
  \/ HistoryBecomesTerminal
  \/ WaitForHistoryAssert
  \/ WaitForHidStart
  \/ HistoryHasHid
  \/ WaitForHidExcept

Spec == Init /\ [][Next]_vars

\* The calling thread always takes its next step.
FairSpec == Spec /\ WF_vars(Next)

Terminated == pc \in {"returned", "raised"}

\* -------------------------------------------------------- ItemVisibilityWaiter
InItem == op = "history_panel_wait_for_hid_visible"

\* The history and its panel as the waiter meets them: the item's id is id1
\* until the forced refresh numbered idChangeAt and id2 from then on, and the
\* panel shows the item once visibleAfter forced refreshes have been made.
CurrentId == IF idChangeAt # Never /\ refreshes >= idChangeAt THEN "id2" ELSE "id1"

PanelShowsItem == visibleAfter # Never /\ refreshes >= visibleAfter

\* The ids of the content elements the panel shows.
DomIds == IF PanelShowsItem THEN {CurrentId} ELSE {}

\* history_panel_item_component: the beta panel selects by hid, the other by
\* the content type and id of the history item passed in.
history_panel_item_component(is_beta, history_item_id) ==
  IF is_beta THEN "by_hid" ELSE history_item_id

\* Whether the element selector sel selects is displayed.
ElementVisible(sel) == PanelShowsItem /\ (sel = "by_hid" \/ sel = CurrentId)

\* wait_for_history_to_have_hid(current_history_id, hid) begins.
ItemListingStart ==
  /\ op \in ItemOps
  /\ pc = "start"
  /\ awaiting' = "hid"
  /\ PollEnter(timeout_for("JOB_COMPLETION"), "JOB_COMPLETION")
  /\ UNCHANGED <<op, timeout_multiplier, now, err, result, retryVars,
                 scriptVars, historyVars, hidVars, allowed_force_refreshes,
                 beta, listed, visibleAfter, idChangeAt, selectorId, attempt,
                 refreshes, visWaits, refreshFailed, tourVars, clockVars, wrapVars, stateVars, moreVars>>

\* history_has_hid on the listing of a history that has the hid or has not.
ItemListingHasHid ==
  /\ op \in ItemOps
  /\ pc = "p_cond"
  /\ awaiting = "hid"
  /\ LET listing == IF listed THEN {hid} ELSE {} IN
       /\ hids' = listing
       /\ PollAnswer(history_has_hid(listing))
  /\ UNCHANGED <<op, timeout_multiplier, now, err, result, retryVars,
                 scriptVars, historyVars, hid, timed, extVars>>

\* wait_for_history_to_have_hid's except clause; the timeout it raises is
\* not caught by history_panel_wait_for_hid_visible.
ItemListingExcept ==
  /\ op \in ItemOps
  /\ pc = "hh_except"
  /\ LET listing == IF listed THEN {hid} ELSE {} IN
       /\ hids' = listing
       /\ err' = prepend_timeout_message(
                   err, "Timeout waiting for history to have hid - have hids", listing)
  /\ pc' = "raised"
  /\ UNCHANGED <<op, timeout_multiplier, now, result, retryVars, pollVars,
                 scriptVars, historyVars, hid, timed, extVars>>

\* history_item = self.hid_to_history_item(hid, ...), or the listing request
\* fails; then history_item_selector = self.history_panel_item_component(...)
\* and history_item_wait_for begins with attempt = 0.
ItemResolve ==
  /\ op \in ItemOps
  /\ pc = "v_resolve"
  /\ \/ /\ selectorId' = history_panel_item_component(beta, CurrentId)
        /\ attempt' = 0
        /\ pc' = "w_wait"
        /\ UNCHANGED err
     \/ /\ err' = Err("Other", "api_get failed", pollId, {})
        /\ pc' = "raised"
        /\ UNCHANGED <<selectorId, attempt>>
  /\ UNCHANGED <<op, timeout_multiplier, now, result, retryVars, pollVars,
                 scriptVars, historyVars, hidVars, timed,
                 allowed_force_refreshes, beta, listed, visibleAfter, idChangeAt,
                 refreshes, visWaits, refreshFailed, awaiting, tourVars,
                 clockVars, wrapVars, stateVars, moreVars>>

\* rval = self.wait_for_visible(history_item_selector,
\*                              wait_type=WAIT_TYPES.JOB_COMPLETION) begins.
ItemWaitStart ==
  /\ op \in ItemOps
  /\ pc = "w_wait"
  /\ awaiting' = IF visibilityRefreshes = Never THEN "visible" ELSE "state"
  /\ visWaits' = visWaits + 1
  /\ PollEnter(timeout_for("JOB_COMPLETION"), "JOB_COMPLETION")
  /\ UNCHANGED <<op, timeout_multiplier, now, err, result, retryVars,
                 scriptVars, historyVars, hidVars, allowed_force_refreshes,
                 beta, listed, visibleAfter, idChangeAt, selectorId, attempt,
                 refreshes, refreshFailed, tourVars, clockVars, wrapVars, stateVars, moreVars>>

\* One look for the displayed element of history_item_selector.
ItemVisibleCondition ==
  /\ op \in ItemOps
  /\ pc = "p_cond"
  /\ awaiting = "visible"
  /\ PollAnswer(IF ElementVisible(selectorId) THEN "element" ELSE "False")
  /\ UNCHANGED <<op, timeout_multiplier, now, err, result, retryVars,
                 scriptVars, historyVars, hidVars, timed, extVars>>

\* The except self.TimeoutException clause around the running call of
\* history_item_wait_for: that of history_panel_wait_for_hid_visible, or that
\* of history_panel_wait_for_hid_state once the wait for the state has begun.
ExceptClause == IF visibilityRefreshes = Never THEN "v_except" ELSE "s_except"

\* except self.TimeoutException in history_item_wait_for: re-raise, or count
\* the attempt and go on to the refresh.
RefreshDecision_Always(att, allowed) == "refresh"

RefreshDecision_OneMore(att, allowed) ==
  IF att > allowed THEN "raise" ELSE "refresh"

RefreshDecision_OneFewer(att, allowed) ==
  IF att + 1 >= allowed THEN "raise" ELSE "refresh"

RefreshDecision(att, allowed) ==
  IF att >= allowed THEN "raise" ELSE "refresh"

ItemWaitExcept ==
  /\ op \in ItemOps
  /\ pc = "w_except"
  /\ IF RefreshDecision(attempt, allowed_force_refreshes) = "raise"
     THEN /\ pc' = ExceptClause
          /\ UNCHANGED attempt
     ELSE /\ attempt' = attempt + 1
          /\ pc' = "w_refresh"
  /\ UNCHANGED <<op, timeout_multiplier, now, err, result, retryVars, pollVars,
                 scriptVars, historyVars, hidVars, timed,
                 allowed_force_refreshes, beta, listed, visibleAfter, idChangeAt,
                 selectorId, refreshes, visWaits, refreshFailed, awaiting,
                 tourVars, clockVars, wrapVars, stateVars, moreVars>>

\* self.history_panel_refresh_click(): the click on the refresh button is
\* made, or waiting for the button times out, or the click fails otherwise.
AfterRefreshError_Caught(kind) == "w_except"

\* The refresh click stands after the try statement of history_item_wait_for:
\* what it raises leaves that function, and history_panel_wait_for_hid_visible
\* catches it when it is a timeout.
AfterRefreshError(kind) == IF kind = "Timeout" THEN ExceptClause ELSE "raised"

history_panel_refresh_click ==
  /\ op \in ItemOps
  /\ pc = "w_refresh"
  /\ \/ /\ refreshes' = refreshes + 1
        /\ pc' = "w_wait"
        /\ UNCHANGED <<err, refreshFailed>>
     \/ /\ \E k \in {"Timeout", "Other"} :
             /\ err' = Err(k, "refresh_button", pollId, {})
             /\ pc' = AfterRefreshError(k)
        /\ refreshFailed' = TRUE
        /\ UNCHANGED refreshes
  /\ UNCHANGED <<op, timeout_multiplier, now, result, retryVars, pollVars,
                 scriptVars, historyVars, hidVars, timed,
                 allowed_force_refreshes, beta, listed, visibleAfter, idChangeAt,
                 selectorId, attempt, visWaits, awaiting, tourVars, clockVars, wrapVars, stateVars, moreVars>>

\* except self.TimeoutException as e in history_panel_wait_for_hid_visible:
\* the ids of the content elements found go into the message.
ItemVisibleExcept ==
  /\ op \in ItemOps
  /\ pc = "v_except"
  /\ err' = prepend_timeout_message(
              err, "Failed waiting on history item to become visible", DomIds)
  /\ pc' = "raised"
  /\ UNCHANGED <<op, timeout_multiplier, now, result, retryVars, pollVars,
                 scriptVars, historyVars, hidVars, timed, extVars>>

\* return rval; return history_item_selector
ItemReturn ==
  /\ op \in ItemOps
  /\ pc = "v_return"
  /\ IF op = "history_panel_wait_for_hid_state"
     THEN /\ pc' = "s_select"
          /\ UNCHANGED result
     ELSE /\ result' = selectorId
          /\ pc' = "returned"
  /\ UNCHANGED <<op, timeout_multiplier, now, err, retryVars, pollVars,
                 scriptVars, historyVars, hidVars, timed, extVars>>

RetryDefaults ==
  /\ sleep = RETRY_DURING_TRANSITIONS_SLEEP_DEFAULT
  /\ attempts = RETRY_DURING_TRANSITIONS_ATTEMPTS_DEFAULT
  /\ exception_check = "exception_seems_to_indicate_transition"
  /\ succeedAt = 0
  /\ notReadyFor = Never
  /\ terminalValue = "v1"
  /\ assert_ok = TRUE

ItemInit ==
  /\ op = "history_panel_wait_for_hid_visible"
  /\ InitIdle
  /\ RetryDefaults
  /\ timeout_multiplier \in 1..MaxMultiplier
  /\ hid = 1
  /\ allowed_force_refreshes \in 0..MaxRefreshes
  /\ beta \in BOOLEAN
  /\ listed \in BOOLEAN
  /\ visibleAfter \in (0..(MaxRefreshes + 1)) \cup {Never}
  /\ idChangeAt \in (1..MaxRefreshes) \cup {Never}
  /\ stateAfter = Never
  /\ NoTourInputs
  /\ NoLoginInputs
  /\ asked = "JOB_COMPLETION"

ItemNext ==
  \/ ItemListingStart
  \/ ItemListingHasHid
  \/ ItemListingExcept
  \/ ItemResolve
  \/ ItemWaitStart
  \/ ItemVisibleCondition
  \/ PollCheck
  \/ ItemWaitExcept
  \/ history_panel_refresh_click
  \/ ItemVisibleExcept
  \/ ItemReturn

ItemSpec == ItemInit /\ [][ItemNext]_vars

\* ------------------------------------------------------------ ItemStateWaiter
InState == op = "history_panel_wait_for_hid_state"

\* The item shows the requested state once stateAfter forced refreshes have
\* been made.
StateShown == stateAfter # Never /\ refreshes >= stateAfter

\* content_item_by_attributes(hid=hid, state=state) in the beta history, else
\* history_item_selector.with_data("state", state).
history_item_selector_state(is_beta, selector) ==
  IF is_beta THEN "by_hid_and_state"
  ELSE IF selector = "id1" THEN "id1_with_state" ELSE "id2_with_state"

AttemptAtStart_Carried(att) == att

\* attempt = 0, the first statement of history_item_wait_for.
AttemptAtStart(att) == 0

\* history_item_selector_state is built and
\* self.history_item_wait_for(history_item_selector_state,
\*                            allowed_force_refreshes) begins.
StateSelect ==
  /\ InState
  /\ pc = "s_select"
  /\ visibilityRefreshes' = refreshes
  /\ attempt' = AttemptAtStart(attempt)
  /\ pc' = "w_wait"
  /\ UNCHANGED <<op, timeout_multiplier, now, err, result, retryVars, pollVars,
                 scriptVars, historyVars, hidVars, timed,
                 allowed_force_refreshes, beta, listed, visibleAfter, idChangeAt,
                 selectorId, refreshes, visWaits, refreshFailed, awaiting,
                 tourVars, clockVars, wrapVars, stateAfter, moreVars>>

\* One look for the displayed element: of history_item_selector_state while
\* the state is awaited, of history_item_selector in the except clause.
StateCondition ==
  /\ InState
  /\ pc = "p_cond"
  /\ awaiting \in {"state", "current"}
  /\ PollAnswer(IF ElementVisible(selectorId) /\ (awaiting = "current" \/ StateShown)
                THEN "element" ELSE "False")
  /\ UNCHANGED <<op, timeout_multiplier, now, err, result, retryVars,
                 scriptVars, historyVars, hidVars, timed, extVars>>

\* except self.TimeoutException as e:
\*     history_item = self.wait_for_visible(history_item_selector) begins.
StateExcept ==
  /\ InState
  /\ pc = "s_except"
  /\ awaiting' = "current"
  /\ visWaits' = visWaits + 1
  /\ PollEnter(timeout_for(DEFAULT_WAIT_TYPE), DEFAULT_WAIT_TYPE)
  /\ UNCHANGED <<op, timeout_multiplier, now, err, result, retryVars,
                 scriptVars, historyVars, hidVars, allowed_force_refreshes,
                 beta, listed, visibleAfter, idChangeAt, selectorId, attempt,
                 refreshes, refreshFailed, tourVars, clockVars, wrapVars,
                 stateVars, moreVars>>

\* current_state is read from the state- class of the item, UNKNOWN when it
\* has none, and raise self.prepend_timeout_message(e, message).
StateMessage ==
  /\ InState
  /\ pc = "s_message"
  /\ \E current_state \in IF StateShown THEN {"ok"} ELSE {"running", "UNKNOWN"} :
       err' = prepend_timeout_message(
                err, "Failed waiting on history item state to change", current_state)
  /\ pc' = "raised"
  /\ UNCHANGED <<op, timeout_multiplier, now, result, retryVars, pollVars,
                 scriptVars, historyVars, hidVars, timed, extVars>>

\* return history_item_selector_state
StateReturn ==
  /\ InState
  /\ pc = "s_return"
  /\ result' = history_item_selector_state(beta, selectorId)
  /\ pc' = "returned"
  /\ UNCHANGED <<op, timeout_multiplier, now, err, retryVars, pollVars,
                 scriptVars, historyVars, hidVars, timed, extVars>>

StateInit ==
  /\ op = "history_panel_wait_for_hid_state"
  /\ InitIdle
  /\ RetryDefaults
  /\ timeout_multiplier \in {1, MaxMultiplier}
  /\ hid = 1
  /\ allowed_force_refreshes \in 0..MaxRefreshes
  /\ listed \in BOOLEAN
  /\ IF listed
     THEN /\ beta \in BOOLEAN
          /\ visibleAfter \in (0..MaxRefreshes) \cup {Never}
          /\ idChangeAt \in {1, Never}
     ELSE \* a call that fails on the listing reads none of these
          /\ beta = FALSE
          /\ visibleAfter = Never
          /\ idChangeAt = Never
  /\ stateAfter \in IF visibleAfter = Never THEN {Never}
                    ELSE (visibleAfter..(visibleAfter + MaxRefreshes)) \cup {Never}
  /\ NoTourInputs
  /\ NoLoginInputs
  /\ asked = "JOB_COMPLETION"

StateNext ==
  \/ ItemNext
  \/ StateSelect
  \/ StateCondition
  \/ StateExcept
  \/ StateMessage
  \/ StateReturn

StateSpec == StateInit /\ [][StateNext]_vars

\* ------------------------------------------------------------ TourInterpreter
InTour == op = "run_tour"

\* The steps a tour script is made of: a titled step with every key, a titled
\* step with none, and an untitled step with textinsert but no element.
StepKinds ==
  { [title |-> "t1", preclick |-> <<"a", "b">>, element |-> "e",
     textinsert |-> "x", postclick |-> <<"c">>],
    [title |-> "t2", preclick |-> <<>>, element |-> "None",
     textinsert |-> "None", postclick |-> <<>>],
    [title |-> "None", preclick |-> <<"a">>, element |-> "None",
     textinsert |-> "x", postclick |-> <<"c">>] }

Titles == {"t1", "t2"}

Scripts == UNION { [1..n -> StepKinds] : n \in 1..MaxSteps }

\* for i, step in enumerate(steps): step is steps[i].
Step == steps[step_index + 1]

\* One entry of the record of sub-actions: the step's position in the script,
\* the sub-action, what it was applied to, the index handed on, the outcome.
Entry(act, arg, index, ok) ==
  [step |-> step_index, act |-> act, arg |-> arg, index |-> index, ok |-> ok]

\* skip = True when some skip_step equals the title.
Skipped_Never(title, skips) == FALSE

Skipped(title, skips) == title \in skips

\* self.run_tour_step(step, i, tour_callback): the index handed to handle_step
\* of the step at position i, executed steps having been run before it.
StepIndexPassed_Renumbered(i, executed) == executed

StepIndexPassed(i, executed) == i

\* The statement of run_tour_step that follows a sub-action.
AfterSubAction_CallbackFirst(act) ==
  CASE act = "preclick" -> "t_callback"
    [] act = "callback" -> "t_element"
    [] act = "element" -> "t_text"
    [] act = "textinsert" -> "t_post_call"
    [] act = "postclick" -> "t_done"

AfterSubAction_CallbackLast(act) ==
  CASE act = "preclick" -> "t_element"
    [] act = "element" -> "t_text"
    [] act = "textinsert" -> "t_post_call"
    [] act = "postclick" -> "t_callback"
    [] act = "callback" -> "t_done"

AfterSubAction(act) ==
  CASE act = "preclick" -> "t_element"
    [] act = "element" -> "t_text"
    [] act = "textinsert" -> "t_callback"
    [] act = "callback" -> "t_post_call"
    [] act = "postclick" -> "t_done"

\* No statement of run_tour or run_tour_step catches an exception: from the
\* sub-action that raised, control leaves run_tour.
OnFailure_Continue(next) == next

OnFailure(next) == "raised"

\* What no step of run_tour changes.
TourFrame_Rescaling ==
  /\ timeout_multiplier' = timeout_multiplier + 1
  /\ UNCHANGED <<op, result, attempts, sleep, exception_check, succeedAt,
                 firstFailure, allEligible, pollVars, scriptVars, historyVars,
                 hidVars, itemVars, clockVars, wrapVars, stateVars, moreVars, steps, skip_steps,
                 sleep_on_steps, glitches>>

TourFrame ==
  UNCHANGED <<op, timeout_multiplier, result, attempts, sleep, exception_check,
              succeedAt, firstFailure, allEligible, pollVars, scriptVars,
              historyVars, hidVars, itemVars, clockVars, wrapVars, stateVars, moreVars, steps, skip_steps,
              sleep_on_steps, glitches>>

\* skip_steps = skip_steps or []; ...; self.home(); steps = tour_dict["steps"]
TourHome ==
  /\ InTour
  /\ pc = "start"
  /\ tour_callback' = IF tour_callback = "None" THEN "NullTourCallback"
                      ELSE tour_callback
  /\ \/ /\ pc' = "t_loop"
        /\ UNCHANGED err
     \/ /\ err' = Err("Other", "home", 0, {})
        /\ pc' = "raised"
  /\ UNCHANGED <<now, timed, previous_attempts, fcalls, sleeps, step_index,
                 click_index, log>>
  /\ TourFrame

\* for i, step in enumerate(steps): the loop ends, or the title is looked up
\* in sleep_on_steps.
TourLoop ==
  /\ InTour
  /\ pc = "t_loop"
  /\ pc' = IF step_index >= Len(steps) THEN "returned"
           ELSE IF Step.title \in DOMAIN sleep_on_steps THEN "t_sleep"
           ELSE "t_skip"
  /\ UNCHANGED <<now, err, timed, previous_attempts, fcalls, sleeps, step_index,
                 click_index, tour_callback, log>>
  /\ TourFrame

\* time.sleep(sleep_on_steps[title])
TourSleep ==
  /\ InTour
  /\ pc = "t_sleep"
  /\ now' = now + Seconds(sleep_on_steps[Step.title])
  /\ timed' = timed \cup {TimedWait("tour_sleep", "none",
                                    Seconds(sleep_on_steps[Step.title]))}
  /\ log' = Append(log, Entry("sleep", Step.title, step_index, TRUE))
  /\ pc' = "t_skip"
  /\ UNCHANGED <<err, previous_attempts, fcalls, sleeps, step_index, click_index,
                 tour_callback>>
  /\ TourFrame

\* if skip: continue; else self.run_tour_step(step, i, tour_callback)
TourSkipTest ==
  /\ InTour
  /\ pc = "t_skip"
  /\ IF Skipped(Step.title, skip_steps)
     THEN /\ step_index' = step_index + 1
          /\ pc' = "t_loop"
     ELSE /\ pc' = "t_pre_call"
          /\ UNCHANGED step_index
  /\ click_index' = 0
  /\ UNCHANGED <<now, err, timed, previous_attempts, fcalls, sleeps,
                 tour_callback, log>>
  /\ TourFrame

\* The selectors of the step's preclick or postclick list.
ClickList(phase) == IF phase = "preclick" THEN Step.preclick ELSE Step.postclick

\* timeout = self.timeout_for(wait_type=WAIT_TYPES.JOB_COMPLETION) of
\* tour_wait_for_clickable_element and tour_wait_for_element_present.
TourTimeout ==
  TimedWait("timeout", "JOB_COMPLETION", Seconds(timeout_for("JOB_COMPLETION")))

\* The steps run_tour_step was called for before this one.
Executed == Cardinality({k \in 1..Len(log) : log[k].act = "callback"})

\* for selector in preclick / postclick: the list is done, or one invocation
\* of _tour_wait_for_and_click_element's body under retry_during_transitions:
\* the page is in transition, or the element is clicked, or it does not become
\* clickable in time, or the click fails otherwise.
TourClickCall(phase, pcCall, pcExcept) ==
  /\ InTour
  /\ pc = pcCall
  /\ IF click_index >= Len(ClickList(phase))
     THEN /\ pc' = AfterSubAction(phase)
          /\ click_index' = 0
          /\ UNCHANGED <<now, err, timed, previous_attempts, fcalls, log>>
     ELSE LET selector == ClickList(phase)[click_index + 1] IN
          /\ fcalls' = fcalls + 1
          /\ timed' = timed \cup {TourTimeout}
          /\ IF fcalls + 1 <= glitches
             THEN /\ \E k \in {"StaleElement", "NotClickable"} :
                       err' = Err(k, selector, fcalls + 1, {})
                  /\ pc' = pcExcept
                  /\ UNCHANGED <<now, previous_attempts, click_index, log>>
             ELSE \/ /\ log' = Append(log, Entry(phase, selector, step_index, TRUE))
                     /\ click_index' = click_index + 1
                     /\ previous_attempts' = 0
                     /\ pc' = pcCall
                     /\ UNCHANGED <<now, err>>
                  \/ /\ err' = Err("Timeout", selector, fcalls + 1, {})
                     /\ now' = now + Seconds(timeout_for("JOB_COMPLETION"))
                     /\ pc' = pcExcept
                     /\ UNCHANGED <<previous_attempts, click_index, log>>
                  \/ /\ err' = Err("Other", selector, fcalls + 1, {})
                     /\ pc' = pcExcept
                     /\ UNCHANGED <<now, previous_attempts, click_index, log>>
  /\ UNCHANGED <<sleeps, step_index, tour_callback>>
  /\ TourFrame

\* except Exception as e of the retry around the click.
TourClickExcept(phase, pcExcept, pcCall, pcSleep) ==
  /\ InTour
  /\ pc = pcExcept
  /\ IF RetryDecision(previous_attempts, attempts, exception_check, err) = "raise"
     THEN /\ log' = Append(log, Entry(phase, ClickList(phase)[click_index + 1],
                                      step_index, FALSE))
          /\ pc' = OnFailure(pcCall)
     ELSE /\ pc' = pcSleep
          /\ UNCHANGED log
  /\ UNCHANGED <<now, err, timed, previous_attempts, fcalls, sleeps, step_index,
                 click_index, tour_callback>>
  /\ TourFrame

\* time.sleep(sleep); previous_attempts += 1 of the retry around the click.
TourClickSleep(pcSleep, pcCall) ==
  /\ InTour
  /\ pc = pcSleep
  /\ now' = now + sleep
  /\ timed' = timed \cup {TimedWait("retry_sleep", "none", sleep)}
  /\ sleeps' = sleeps + 1
  /\ previous_attempts' = previous_attempts + 1
  /\ pc' = pcCall
  /\ UNCHANGED <<err, fcalls, step_index, click_index, tour_callback, log>>
  /\ TourFrame

TourPreclickCall == TourClickCall("preclick", "t_pre_call", "t_pre_except")

TourPreclickExcept ==
  TourClickExcept("preclick", "t_pre_except", "t_pre_call", "t_pre_sleep")

TourPreclickSleep == TourClickSleep("t_pre_sleep", "t_pre_call")

TourPostclickCall == TourClickCall("postclick", "t_post_call", "t_post_except")

TourPostclickExcept ==
  TourClickExcept("postclick", "t_post_except", "t_post_call", "t_post_sleep")

TourPostclickSleep == TourClickSleep("t_post_sleep", "t_post_call")

\* if element_str is not None: element = self.tour_wait_for_element_present(...)
TourElement ==
  /\ InTour
  /\ pc = "t_element"
  /\ IF Step.element = "None"
     THEN /\ pc' = AfterSubAction("element")
          /\ UNCHANGED <<now, err, timed, log>>
     ELSE /\ timed' = timed \cup {TourTimeout}
          /\ \/ /\ log' = Append(log, Entry("element", Step.element, step_index, TRUE))
                /\ pc' = AfterSubAction("element")
                /\ UNCHANGED <<now, err>>
             \/ /\ err' = Err("Timeout", Step.element, 0, {})
                /\ now' = now + Seconds(timeout_for("JOB_COMPLETION"))
                /\ log' = Append(log, Entry("element", Step.element, step_index, FALSE))
                /\ pc' = OnFailure(AfterSubAction("element"))
  /\ UNCHANGED <<previous_attempts, fcalls, sleeps, step_index, click_index,
                 tour_callback>>
  /\ TourFrame

ElementBound_Always(step) == TRUE

\* The local variable element of run_tour_step is assigned only inside
\* if element_str is not None.
ElementBound(step) == step.element # "None"

\* if textinsert is not None: element.send_keys(textinsert); element is bound
\* only when the step has an element key.
TourTextInsert ==
  /\ InTour
  /\ pc = "t_text"
  /\ IF Step.textinsert = "None"
     THEN /\ pc' = AfterSubAction("textinsert")
          /\ UNCHANGED <<err, log>>
     ELSE IF ~ElementBound(Step)
     THEN /\ err' = Err("Other", "UnboundLocalError", 0, {})
          /\ log' = Append(log, Entry("textinsert", Step.textinsert, step_index, FALSE))
          /\ pc' = OnFailure(AfterSubAction("textinsert"))
     ELSE \/ /\ log' = Append(log, Entry("textinsert", Step.textinsert, step_index, TRUE))
             /\ pc' = AfterSubAction("textinsert")
             /\ UNCHANGED err
          \/ /\ err' = Err("Other", "send_keys", 0, {})
             /\ log' = Append(log, Entry("textinsert", Step.textinsert, step_index, FALSE))
             /\ pc' = OnFailure(AfterSubAction("textinsert"))
  /\ UNCHANGED <<now, timed, previous_attempts, fcalls, sleeps, step_index,
                 click_index, tour_callback>>
  /\ TourFrame

\* tour_callback.handle_step(step, step_index): NullTourCallback's passes, a
\* supplied callback returns or raises.
TourCallback ==
  /\ InTour
  /\ pc = "t_callback"
  /\ LET index == StepIndexPassed(step_index, Executed) IN
       \/ /\ log' = Append(log, Entry("callback", tour_callback, index, TRUE))
          /\ pc' = AfterSubAction("callback")
          /\ UNCHANGED err
       \/ /\ tour_callback # "NullTourCallback"
          /\ err' = Err("Other", "handle_step", 0, {})
          /\ log' = Append(log, Entry("callback", tour_callback, index, FALSE))
          /\ pc' = OnFailure(AfterSubAction("callback"))
  /\ UNCHANGED <<now, timed, previous_attempts, fcalls, sleeps, step_index,
                 click_index, tour_callback>>
  /\ TourFrame

\* run_tour_step returns; the loop goes on to the next step.
TourStepDone ==
  /\ InTour
  /\ pc = "t_done"
  /\ step_index' = step_index + 1
  /\ pc' = "t_loop"
  /\ UNCHANGED <<now, err, timed, previous_attempts, fcalls, sleeps, click_index,
                 tour_callback, log>>
  /\ TourFrame

TourInit ==
  /\ op = "run_tour"
  /\ InitIdle
  /\ RetryDefaults
  /\ timeout_multiplier \in {1, MaxMultiplier}
  /\ hid = 1
  /\ NoItemInputs
  /\ asked = "JOB_COMPLETION"
  /\ NoLoginInputs
  /\ steps \in Scripts
  /\ skip_steps \in SUBSET Titles
  /\ sleep_on_steps \in { [t \in d |-> 1] : d \in SUBSET Titles }
  /\ tour_callback \in {"None", "callback"}
  /\ glitches \in {0, 1, attempts + 1, attempts + 2}

TourNext ==
  \/ TourHome
  \/ TourLoop
  \/ TourSleep
  \/ TourSkipTest
  \/ TourPreclickCall
  \/ TourPreclickExcept
  \/ TourPreclickSleep
  \/ TourElement
  \/ TourTextInsert
  \/ TourCallback
  \/ TourPostclickCall
  \/ TourPostclickExcept
  \/ TourPostclickSleep
  \/ TourStepDone

TourSpec == TourInit /\ [][TourNext]_vars

\* ------------------------------------------------------------------ WaitClock
InClock == op = "wait_clock"

\* One call of the wait clock as its caller sees it: the method, the WaitType
\* asked for, the multiplier of the session, the length returned or slept.
Measured(fn, length) ==
  [fn |-> fn, wait_type |-> asked, multiplier |-> timeout_multiplier,
   length |-> length]

ClockFrame ==
  UNCHANGED <<op, pc, err, result, retryVars, pollVars, scriptVars, historyVars,
              hidVars, itemVars, tourVars, wrapVars, stateVars, moreVars, asked>>

\* self.wait_length(wait_type)
WaitLength ==
  /\ InClock
  /\ Len(measured) < MaxCalls
  /\ measured' = Append(measured, Measured("wait_length", wait_length(asked)))
  /\ UNCHANGED <<timeout_multiplier, now, timed>>
  /\ ClockFrame

\* self.timeout_for(wait_type)
TimeoutFor ==
  /\ InClock
  /\ Len(measured) < MaxCalls
  /\ measured' = Append(measured, Measured("timeout_for", timeout_for(asked)))
  /\ UNCHANGED <<timeout_multiplier, now, timed>>
  /\ ClockFrame

\* self.sleep_for(wait_type): sleep_for_seconds(self.wait_length(wait_type))
SleepFor ==
  /\ InClock
  /\ Len(measured) < MaxCalls
  /\ now' = now + Seconds(wait_length(asked))
  /\ timed' = timed \cup {TimedWait("sleep_for", asked, Seconds(wait_length(asked)))}
  /\ measured' = Append(measured, Measured("sleep_for", wait_length(asked)))
  /\ UNCHANGED timeout_multiplier
  /\ ClockFrame

\* The suite is run again in a new session whose timeout_multiplier is twice
\* the one before; the clock and the waits issued are the new session's.
NewSession ==
  /\ InClock
  /\ measured # <<>>
  /\ Len(measured) < MaxCalls
  /\ timeout_multiplier <= MaxMultiplier
  /\ timeout_multiplier' = 2 * timeout_multiplier
  /\ now' = 0
  /\ timed' = {}
  /\ UNCHANGED measured
  /\ ClockFrame

ClockInit ==
  /\ op = "wait_clock"
  /\ InitIdle
  /\ RetryDefaults
  /\ timeout_multiplier \in 1..MaxMultiplier
  /\ hid = 1
  /\ NoItemInputs
  /\ NoTourInputs
  /\ NoLoginInputs
  /\ asked \in DOMAIN WAIT_TYPES

ClockNext ==
  \/ WaitLength
  \/ TimeoutFor
  \/ SleepFor
  \/ NewSession

ClockSpec == ClockInit /\ [][ClockNext]_vars

\* --------------------------------------------------- retry_during_transitions
InWrapped == op = "retry_during_transitions"

\* previous_attempts = 0, the first statement of every call of
\* retry_call_during_transitions; carried is the count the call before ended
\* with.
PreviousAttemptsAtStart_Carried(carried) == carried

PreviousAttemptsAtStart(carried) == 0

\* A call of the wrapped function: _retry calls retry_call_during_transitions
\* with the attempts, sleep and exception_check given at decoration. The
\* caller makes it first, or after an earlier call has returned or raised.
WrappedInvoke ==
  /\ InWrapped
  /\ pc \in {"start", "returned", "raised"}
  /\ pc = "start" \/ Len(pastCalls) < MaxWrappedCalls
  /\ pastCalls' = IF pc = "start" THEN pastCalls
                  ELSE Append(pastCalls, [outcome |-> pc,
                                          absorbedAll |-> sleeps = attempts + 1])
  /\ previous_attempts' = PreviousAttemptsAtStart(previous_attempts)
  /\ succeedAt' \in {0, 1, attempts + 1, attempts + 2}
  /\ fcalls' = 0
  /\ sleeps' = 0
  /\ firstFailure' = NoError
  /\ allEligible' = TRUE
  /\ err' = NoError
  /\ result' = "None"
  /\ now' = 0
  /\ pc' = "r_call"
  /\ UNCHANGED <<op, timeout_multiplier, attempts, sleep, exception_check,
                 pollVars, scriptVars, historyVars, hidVars, timed, itemVars,
                 tourVars, clockVars, stateVars, moreVars>>

WrappedInit ==
  /\ op = "retry_during_transitions"
  /\ InitIdle
  /\ sleep = RETRY_DURING_TRANSITIONS_SLEEP_DEFAULT
  /\ attempts \in AttemptsValues
  /\ exception_check = "exception_seems_to_indicate_transition"
  /\ succeedAt = 0
  /\ notReadyFor = Never
  /\ terminalValue = "v1"
  /\ assert_ok = TRUE
  /\ timeout_multiplier = 1
  /\ hid = 1
  /\ NoItemInputs
  /\ NoTourInputs
  /\ NoLoginInputs
  /\ asked = "DATABASE_OPERATION"

WrappedNext ==
  \/ WrappedInvoke
  \/ RetryCall
  \/ RetryExcept
  \/ RetrySleep

WrappedSpec == WrappedInit /\ [][WrappedNext]_vars

\* ------------------------------------------- histories_click_advanced_search
InNested == op = "histories_click_advanced_search"

\* The invocations of the innermost action at which it may be made to succeed.
NestedSucceedAt ==
  {0, 1, attempts + 3, (attempts + 2) * (attempts + 2),
   (attempts + 2) * (attempts + 2) + 1}

\* The _retry of histories_click_advanced_search calls
\* retry_call_during_transitions, whose return f() runs the body: the call
\* self.wait_for_and_click_selector(search_selector), again a _retry that
\* calls retry_call_during_transitions with previous_attempts = 0.
NestedOuterCall ==
  /\ InNested
  /\ pc \in {"start", "o_call"}
  /\ outerCalls' = outerCalls + 1
  /\ previous_attempts' = PreviousAttemptsAtStart(previous_attempts)
  /\ pc' = "i_call"
  /\ UNCHANGED <<op, timeout_multiplier, now, err, result, attempts, sleep,
                 exception_check, succeedAt, fcalls, sleeps, firstFailure,
                 allEligible, pollVars, scriptVars, historyVars, hidVars, timed,
                 itemVars, tourVars, clockVars, wrapVars, stateVars,
                 outer_previous_attempts, outerSleeps, loginVars, uploadVars>>

\* return f() of the inner retry: the body of wait_for_and_click_selector,
\* element = self.wait_for_selector_clickable(selector); element.click().
NestedInnerCall ==
  /\ InNested
  /\ pc = "i_call"
  /\ fcalls' = fcalls + 1
  /\ \/ /\ fcalls + 1 = succeedAt
        /\ result' = "None"
        /\ pc' = "returned"
        /\ UNCHANGED <<err, firstFailure, allEligible>>
     \/ /\ fcalls + 1 # succeedAt
        /\ \E k \in ErrorKinds :
             LET e == Err(k, "", fcalls + 1, {}) IN
               /\ err' = e
               /\ firstFailure' = IF firstFailure = NoError THEN e ELSE firstFailure
               /\ allEligible' = (allEligible /\ ExceptionCheck(exception_check, e))
        /\ pc' = "i_except"
        /\ UNCHANGED result
  /\ UNCHANGED <<op, timeout_multiplier, now, attempts, sleep, exception_check,
                 previous_attempts, succeedAt, sleeps, pollVars, scriptVars,
                 historyVars, hidVars, timed, extVars>>

AfterInnerRaise_Unwrapped == "raised"

\* What the inner retry re-raises leaves wait_for_and_click_selector and the
\* body of histories_click_advanced_search, and is caught by except Exception
\* of the outer retry.
AfterInnerRaise == "o_except"

\* except Exception as e of the inner retry.
NestedInnerExcept ==
  /\ InNested
  /\ pc = "i_except"
  /\ pc' = IF RetryDecision(previous_attempts, attempts, exception_check, err) = "raise"
           THEN AfterInnerRaise ELSE "i_sleep"
  /\ UNCHANGED <<op, timeout_multiplier, now, err, result, retryVars, pollVars,
                 scriptVars, historyVars, hidVars, timed, extVars>>

\* time.sleep(sleep); previous_attempts += 1 of the inner retry.
NestedInnerSleep ==
  /\ InNested
  /\ pc = "i_sleep"
  /\ now' = now + sleep
  /\ timed' = timed \cup {TimedWait("retry_sleep", "none", sleep)}
  /\ sleeps' = sleeps + 1
  /\ previous_attempts' = previous_attempts + 1
  /\ pc' = "i_call"
  /\ UNCHANGED <<op, timeout_multiplier, err, result, attempts, sleep,
                 exception_check, succeedAt, fcalls, firstFailure, allEligible,
                 pollVars, scriptVars, historyVars, hidVars, extVars>>

\* except Exception as e of the outer retry.
NestedOuterExcept ==
  /\ InNested
  /\ pc = "o_except"
  /\ pc' = IF RetryDecision(outer_previous_attempts, attempts, exception_check,
                            err) = "raise"
           THEN "raised" ELSE "o_sleep"
  /\ UNCHANGED <<op, timeout_multiplier, now, err, result, retryVars, pollVars,
                 scriptVars, historyVars, hidVars, timed, extVars>>

\* time.sleep(sleep); previous_attempts += 1 of the outer retry.
NestedOuterSleep ==
  /\ InNested
  /\ pc = "o_sleep"
  /\ now' = now + sleep
  /\ timed' = timed \cup {TimedWait("retry_sleep", "none", sleep)}
  /\ outerSleeps' = outerSleeps + 1
  /\ outer_previous_attempts' = outer_previous_attempts + 1
  /\ pc' = "o_call"
  /\ UNCHANGED <<op, timeout_multiplier, err, result, retryVars, pollVars,
                 scriptVars, historyVars, hidVars, itemVars, tourVars, clockVars,
                 wrapVars, stateVars, outerCalls, loginVars, uploadVars>>

NestedInit ==
  /\ op = "histories_click_advanced_search"
  /\ InitIdle
  /\ sleep = RETRY_DURING_TRANSITIONS_SLEEP_DEFAULT
  /\ attempts \in AttemptsValues
  /\ exception_check = "exception_seems_to_indicate_transition"
  /\ succeedAt \in NestedSucceedAt
  /\ notReadyFor = Never
  /\ terminalValue = "v1"
  /\ assert_ok = TRUE
  /\ timeout_multiplier = 1
  /\ hid = 1
  /\ NoItemInputs
  /\ NoTourInputs
  /\ NoLoginInputs
  /\ asked = "DATABASE_OPERATION"

NestedNext ==
  \/ NestedOuterCall
  \/ NestedInnerCall
  \/ NestedInnerExcept
  \/ NestedInnerSleep
  \/ NestedOuterExcept
  \/ NestedOuterSleep

NestedSpec == NestedInit /\ [][NestedNext]_vars

\* --------------------------------------------------------------- submit_login
InLogin == op = "submit_login"

\* What no step of submit_login changes.
LoginFrame ==
  UNCHANGED <<op, timeout_multiplier, result, retryVars, pollVars, scriptVars,
              historyVars, hidVars, itemVars, tourVars, clockVars, wrapVars,
              stateVars, nestVars, uploadVars, assert_valid>>

\* The waits of submit_login and wait_for_logged_in name no wait type.
LoginTimeout ==
  TimedWait("timeout", DEFAULT_WAIT_TYPE, Seconds(timeout_for(DEFAULT_WAIT_TYPE)))

\* A call of submit_login up to the click on the submit button: the login
\* link is clicked, sleep_for(WAIT_TYPES.UX_RENDER), the form is waited for
\* and filled, the submit button is clicked; a wait of these times out or a
\* click fails otherwise. The snapshots change nothing here. Then
\* if assert_valid: wait_for_logged_in is to be called, else the call returns.
LoginSubmit ==
  /\ InLogin
  /\ pc = "start"
  /\ \/ /\ now' = now + Seconds(wait_length("UX_RENDER"))
        /\ timed' = timed \cup {TimedWait("sleep_for", "UX_RENDER",
                                          Seconds(wait_length("UX_RENDER"))),
                                LoginTimeout}
        /\ submissions' = submissions + 1
        /\ pc' = IF assert_valid THEN "l_wait" ELSE "returned"
        /\ UNCHANGED err
     \/ /\ \E k \in {"Timeout", "Other"} : err' = Err(k, "login form", submissions, {})
        /\ timed' = timed \cup {LoginTimeout}
        /\ pc' = "raised"
        /\ UNCHANGED <<now, submissions>>
  /\ UNCHANGED <<retries, depth, notLoggedIns, loggedInAt>>
  /\ LoginFrame

\* wait_for_logged_in: self.components.masthead.logged_in_only
\* .wait_for_visible() returns, or times out and the except clause begins.
LoginWaitForLoggedIn ==
  /\ InLogin
  /\ pc = "l_wait"
  /\ timed' = timed \cup {LoginTimeout}
  /\ \/ /\ loggedInAt' = submissions
        /\ pc' = "l_logged_in"
        /\ UNCHANGED <<now, err>>
     \/ /\ err' = Err("Timeout", "logged_in_only", submissions, {})
        /\ now' = now + Seconds(timeout_for(DEFAULT_WAIT_TYPE))
        /\ pc' = "l_api"
        /\ UNCHANGED loggedInAt
  /\ UNCHANGED <<retries, depth, submissions, notLoggedIns>>
  /\ LoginFrame

wait_for_logged_in_raises_AlwaysNotLoggedIn(has_username) == "NotLoggedIn"

\* if "username" in user_info: raise self.prepend_timeout_message(e, message)
\* else: raise NotLoggedInException(e, user_info, dom_message)
wait_for_logged_in_raises(has_username) ==
  IF has_username THEN "Timeout" ELSE "NotLoggedIn"

\* except NotLoggedInException of submit_login.
caught_by_submit_login(kind) == kind = "NotLoggedIn"

\* except self.TimeoutException as e of wait_for_logged_in: the masthead is
\* looked at, user_info = self.api_get("users/current") answers with a
\* username or without, or fails, and the exception raised, whose message
\* has dom_message and user_info in it, reaches submit_login's try statement.
LoginUserApi ==
  /\ InLogin
  /\ pc = "l_api"
  /\ \/ \E ui_logged_out \in BOOLEAN, has_username \in BOOLEAN :
          LET kind == wait_for_logged_in_raises(has_username)
              dom == IF ui_logged_out THEN "loggedout-only present"
                     ELSE "loggedout-only not present"
              user_info == IF has_username THEN {"username"} ELSE {}
          IN /\ err' = IF kind = "Timeout"
                       THEN prepend_timeout_message(
                              err, "Failed waiting for masthead to update for login",
                              {dom} \cup user_info)
                       ELSE Err("NotLoggedIn", "API indicates no user is logged in",
                                err.at, {dom} \cup user_info)
             /\ notLoggedIns' = IF kind = "NotLoggedIn" THEN notLoggedIns + 1
                                ELSE notLoggedIns
             /\ pc' = IF caught_by_submit_login(kind) THEN "l_except" ELSE "raised"
     \/ /\ err' = Err("Other", "api_get failed", err.at, {})
        /\ pc' = "raised"
        /\ UNCHANGED notLoggedIns
  /\ UNCHANGED <<now, timed, retries, depth, submissions, loggedInAt>>
  /\ LoginFrame

submit_again_Inclusive(r) == r >= 0

\* if retries > 0
submit_again(r) == r > 0

\* except NotLoggedInException: if retries > 0:
\*     self.submit_login(email, password, assert_valid, retries - 1)
\* else: raise
LoginExcept ==
  /\ InLogin
  /\ pc = "l_except"
  /\ IF submit_again(retries)
     THEN /\ retries' = retries - 1
          /\ depth' = depth + 1
          /\ pc' = "start"
     ELSE /\ pc' = "raised"
          /\ UNCHANGED <<retries, depth>>
  /\ UNCHANGED <<now, err, timed, submissions, notLoggedIns, loggedInAt>>
  /\ LoginFrame

\* self.snapshot("logged-in") and the call returns: to the call of
\* submit_login that made it in its except clause, which goes on to its own
\* snapshot("logged-in"), or to the caller.
LoginReturn ==
  /\ InLogin
  /\ pc = "l_logged_in"
  /\ IF depth > 0
     THEN /\ depth' = depth - 1
          /\ retries' = retries + 1
          /\ UNCHANGED pc
     ELSE /\ pc' = "returned"
          /\ UNCHANGED <<depth, retries>>
  /\ UNCHANGED <<now, err, timed, submissions, notLoggedIns, loggedInAt>>
  /\ LoginFrame

LoginInit ==
  /\ op = "submit_login"
  /\ InitIdle
  /\ RetryDefaults
  /\ timeout_multiplier \in 1..MaxMultiplier
  /\ hid = 1
  /\ NoItemInputs
  /\ NoTourInputs
  /\ asked = "UX_RENDER"
  /\ assert_valid \in BOOLEAN
  /\ retries \in 0..MaxRetries

LoginNext ==
  \/ LoginSubmit
  \/ LoginWaitForLoggedIn
  \/ LoginUserApi
  \/ LoginExcept
  \/ LoginReturn

LoginSpec == LoginInit /\ [][LoginNext]_vars

\* The calling thread always takes its next step.
LoginFairSpec == LoginSpec /\ WF_vars(LoginNext)

\* --------------------------------------------------------------- upload_build
InUpload == op = "upload_build"

\* What no step of upload_build changes.
UploadFrame ==
  UNCHANGED <<op, timeout_multiplier, result, attempts, sleep, exception_check,
              succeedAt, firstFailure, allEligible, pollVars, scriptVars,
              historyVars, hidVars, itemVars, tourVars, clockVars, wrapVars,
              stateVars, nestVars, loginVars>>

\* time.sleep(.5), in ms.
UploadPause == 500

\* wait_for_selector_absent_or_hidden names no wait type.
UploadTimeout ==
  TimedWait("timeout", DEFAULT_WAIT_TYPE, Seconds(timeout_for(DEFAULT_WAIT_TYPE)))

\* return f() of the retry around upload_build: the body begins with
\* time.sleep(.5).
UploadBody ==
  /\ InUpload
  /\ pc \in {"start", "u_body"}
  /\ fcalls' = fcalls + 1
  /\ clicks' = 0
  /\ absentWaits' = 0
  /\ firstWaitTimedOut' = FALSE
  /\ now' = now + UploadPause
  /\ timed' = timed \cup {TimedWait("pause", "none", UploadPause)}
  /\ pc' = "u_click1"
  /\ UNCHANGED <<err, previous_attempts, sleeps>>
  /\ UploadFrame

\* self.wait_for_and_click_selector(build_selector): the button is clicked,
\* or the call raises: the page stayed in transition through its retries, the
\* button did not become clickable in time, or the click failed otherwise.
UploadClick(pcHere, pcNext) ==
  /\ InUpload
  /\ pc = pcHere
  /\ \/ /\ clicks' = clicks + 1
        /\ pc' = pcNext
        /\ UNCHANGED err
     \/ /\ \E k \in {"StaleElement", "Timeout", "Other"} :
             err' = Err(k, "btn-build", fcalls, {})
        /\ pc' = "u_except"
        /\ UNCHANGED clicks
  /\ UNCHANGED <<now, timed, previous_attempts, fcalls, sleeps, absentWaits,
                 firstWaitTimedOut>>
  /\ UploadFrame

UploadFirstClick == UploadClick("u_click1", "u_wait1")

UploadSecondClick == UploadClick("u_click2", "u_wait2")

AfterAbsentTimeout_ClickAgain(waits) == "u_click2"

\* except TimeoutException encloses the first
\* wait_for_selector_absent_or_hidden only: a timeout of the second, in the
\* except clause, leaves the body.
AfterAbsentTimeout(waits) == IF waits = 1 THEN "u_click2" ELSE "u_except"

\* self.wait_for_selector_absent_or_hidden(build_selector), in the try
\* statement and in its except clause: the button has gone and the body
\* returns, or the wait times out, or the element goes stale under it.
UploadWaitAbsent ==
  /\ InUpload
  /\ pc \in {"u_wait1", "u_wait2"}
  /\ absentWaits' = absentWaits + 1
  /\ timed' = timed \cup {UploadTimeout}
  /\ \/ /\ pc' = "returned"
        /\ UNCHANGED <<now, err, firstWaitTimedOut>>
     \/ /\ err' = Err("Timeout", "absent_or_hidden", absentWaits + 1, {})
        /\ now' = now + Seconds(timeout_for(DEFAULT_WAIT_TYPE))
        /\ firstWaitTimedOut' = (firstWaitTimedOut \/ pc = "u_wait1")
        /\ pc' = AfterAbsentTimeout(absentWaits + 1)
     \/ /\ err' = Err("StaleElement", "absent_or_hidden", absentWaits + 1, {})
        /\ pc' = "u_except"
        /\ UNCHANGED <<now, firstWaitTimedOut>>
  /\ UNCHANGED <<previous_attempts, fcalls, sleeps, clicks>>
  /\ UploadFrame

\* except Exception as e of the retry around upload_build.
UploadExcept ==
  /\ InUpload
  /\ pc = "u_except"
  /\ pc' = IF RetryDecision(previous_attempts, attempts, exception_check, err) = "raise"
           THEN "raised" ELSE "u_sleep"
  /\ UNCHANGED <<now, err, timed, previous_attempts, fcalls, sleeps, uploadVars>>
  /\ UploadFrame

\* time.sleep(sleep); previous_attempts += 1 of the retry around upload_build.
UploadSleep ==
  /\ InUpload
  /\ pc = "u_sleep"
  /\ now' = now + sleep
  /\ timed' = timed \cup {TimedWait("retry_sleep", "none", sleep)}
  /\ sleeps' = sleeps + 1
  /\ previous_attempts' = previous_attempts + 1
  /\ pc' = "u_body"
  /\ UNCHANGED <<err, fcalls, uploadVars>>
  /\ UploadFrame

UploadInit ==
  /\ op = "upload_build"
  /\ InitIdle
  /\ RetryDefaults
  /\ timeout_multiplier \in 1..MaxMultiplier
  /\ hid = 1
  /\ NoItemInputs
  /\ NoTourInputs
  /\ NoLoginInputs
  /\ asked = "DATABASE_OPERATION"

UploadNext ==
  \/ UploadBody
  \/ UploadFirstClick
  \/ UploadSecondClick
  \/ UploadWaitAbsent
  \/ UploadExcept
  \/ UploadSleep

UploadSpec == UploadInit /\ [][UploadNext]_vars

\* Every operation of the model: one call of any of them, or one sequence of
\* wait clock sessions.
\* Every operation, each begun as in its own specification; the tours are
\* those of at most MaxAllSteps steps.
AllInit ==
  \/ Init \/ ItemInit \/ StateInit \/ ClockInit \/ WrappedInit
  \/ (TourInit /\ Len(steps) <= MaxAllSteps)
  \/ NestedInit \/ LoginInit \/ UploadInit

\* StateNext has the steps of ItemNext among its own.
AllNext ==
  \/ Next \/ StateNext \/ TourNext \/ ClockNext \/ WrappedNext
  \/ NestedNext \/ LoginNext \/ UploadNext

AllSpec == AllInit /\ [][AllNext]_vars

\* --------------------------------------------------------------------- claims
InRetry == op = "retry_call_during_transitions"

TransientKinds == {"StaleElement", "NotClickable"}

\* The state after f raised an error exception_check rejects, and the step
\* that handles such an error.
C1_RejectedState ==
  (InRetry /\ ~allEligible) =>
     /\ pc \in {"r_except", "raised"}
     /\ err.at = fcalls
     /\ ~ExceptionCheck(exception_check, err)
     /\ sleeps = fcalls - 1
     /\ (~ExceptionCheck(exception_check, firstFailure) => fcalls = 1 /\ sleeps = 0)

C1_RejectedStep ==
  (InRetry /\ pc = "r_except" /\ ~ExceptionCheck(exception_check, err)) =>
     /\ pc' = "raised"
     /\ err' = err
     /\ fcalls' = fcalls
     /\ sleeps' = sleeps
     /\ now' = now

\* C1: the retry executor never retries a failure exception_check rejects.
\* Once f has raised such an error the call is handling or has re-raised that
\* very error: it is the error of the latest invocation of f and no sleep has
\* followed it, however many transient failures came before; the step after
\* catching it re-raises it with no sleep and no call of f; and when the
\* first failure is rejected, f ran exactly once and sleep not at all.
C1_NonTransientNeverRetried == []C1_RejectedState /\ [][C1_RejectedStep]_vars

\* C1 witness: a rejected error re-raised after transient failures were retried.
C1_Witness ==
  /\ InRetry /\ pc = "raised" /\ ~allEligible
  /\ fcalls = 3 /\ sleeps = 2 /\ err.kind = "Timeout"

\* How a call whose operation succeeds within attempts + 1 invocations ends.
C2_ReturnsFirstSuccess_State ==
  (InRetry /\ Terminated /\ allEligible /\ succeedAt \in 1..(attempts + 1)) =>
     /\ pc = "returned"
     /\ result = terminalValue
     /\ fcalls = succeedAt

\* C2: when every failure is eligible and f succeeds on invocation k with
\* 1 <= k <= attempts + 1, the call ends by returning the value of that
\* invocation, and f has been invoked exactly k times; the call does end.
C2_ReturnsFirstSuccess ==
  /\ []C2_ReturnsFirstSuccess_State
  /\ [](InRetry /\ pc = "returned" => fcalls = succeedAt /\ result = terminalValue)
  /\ (InRetry => <>Terminated)

\* C2 witness: success on the last invocation the claim covers, attempts + 1,
\* with the default budget.
C2_Witness ==
  /\ InRetry /\ pc = "returned" /\ allEligible
  /\ attempts = RETRY_DURING_TRANSITIONS_ATTEMPTS_DEFAULT
  /\ succeedAt = attempts + 1 /\ fcalls = attempts + 1 /\ sleeps = attempts

\* C3 as stated: an operation that fails with a transient error on every
\* invocation costs exactly `attempts` sleeps (10 x 0.1 s with the defaults),
\* and the number of sleeps never exceeds `attempts`.
C3_Original ==
  InRetry =>
     /\ sleeps <= attempts
     /\ (pc = "raised" /\ allEligible) =>
           sleeps = attempts /\ now = attempts * sleep

\* C3 amended: such an operation costs exactly attempts + 1 sleeps (11 x 0.1 s
\* with the defaults) before the error is re-raised, and the number of sleeps
\* never exceeds attempts + 1.
C3_WorstCaseSleeps ==
  InRetry =>
     /\ sleeps <= attempts + 1
     /\ now = sleeps * sleep
     /\ (pc = "raised" /\ allEligible) =>
           sleeps = attempts + 1 /\ now = (attempts + 1) * sleep

\* C3 witness: the default policy exhausted by transient failures.
C3_Witness ==
  /\ InRetry /\ pc = "raised" /\ allEligible
  /\ exception_check = "exception_seems_to_indicate_transition"
  /\ attempts = RETRY_DURING_TRANSITIONS_ATTEMPTS_DEFAULT
  /\ sleep = RETRY_DURING_TRANSITIONS_SLEEP_DEFAULT
  /\ sleeps = 11 /\ now = 1100

\* C4: the default classifier accepts a failure exactly when it is a stale
\* element or a not-clickable failure; under it every other kind (a timeout,
\* an assertion failure, anything else) is never slept on and is re-raised
\* as f raised it, being the error of the latest, and only such, invocation.
C4_ClassifierExact ==
  (InRetry /\ exception_check = "exception_seems_to_indicate_transition"
     /\ err # NoError) =>
     /\ exception_seems_to_indicate_transition(err) <=> err.kind \in TransientKinds
     /\ (pc = "r_sleep" => err.kind \in TransientKinds)
     /\ (err.kind \notin TransientKinds =>
           /\ pc \in {"r_except", "raised"}
           /\ err = Err(err.kind, "", fcalls, {})
           /\ sleeps = fcalls - 1)

\* C4 witness: an assertion failure propagated by the default policy after
\* two transient failures were absorbed.
C4_Witness ==
  /\ InRetry /\ exception_check = "exception_seems_to_indicate_transition"
  /\ pc = "raised" /\ err.kind = "AssertionError" /\ fcalls = 3
  /\ firstFailure.kind = "NotClickable"

\* How a pollUntil invocation can end besides a value or a timeout: its
\* condition did not return but raised.
ConditionRaised == pollState = "POLLING" /\ pc = "raised" /\ err.kind = "Other"

\* C5: a pollUntil invocation whose condition returns always ends, with a
\* value or with a timeout error.  While it polls, the clock is never more
\* than one poll interval past the deadline, and every polling state leads
\* to SUCCEEDED or TIMED_OUT (or to the condition itself raising).
C5_PollUntilTerminates ==
  /\ [](pollState = "POLLING" => now <= deadline + PollInterval)
  /\ [](Terminated /\ pollId > 0 =>
          pollState \in {"SUCCEEDED", "TIMED_OUT"} \/ ConditionRaised)
  /\ (pollState = "POLLING" ~>
          (pollState \in {"SUCCEEDED", "TIMED_OUT"} \/ ConditionRaised))

\* C5 witness: wait_for_history_to_have_hid ended by the timeout error after
\* polling for the whole job-completion timeout.
C5_Witness ==
  /\ op = "wait_for_history_to_have_hid" /\ pc = "raised"
  /\ pollState = "TIMED_OUT" /\ err.kind = "Timeout"
  /\ condCalls > 60

\* C6: a condition that is not ready for N evaluations and then yields a
\* value, polled with timeout > N * pollInterval, makes pollUntil return
\* exactly that value after exactly N + 1 evaluations, never a timeout and
\* never a later value.
C6_ReturnsTerminalValue ==
  (op = "pollUntil" /\ pollId > 0 /\ notReadyFor # Never
     /\ timeout * 1000 > notReadyFor * PollInterval) =>
     /\ condCalls <= notReadyFor + 1
     /\ pollState # "TIMED_OUT"
     /\ pc # "raised"
     /\ (Terminated =>
           /\ pc = "returned"
           /\ pollState = "SUCCEEDED"
           /\ result = terminalValue
           /\ condCalls = notReadyFor + 1)

\* C6 witness: the value returned after three not-ready answers.
C6_Witness ==
  /\ op = "pollUntil" /\ pc = "returned" /\ notReadyFor = 3 /\ timeout = 2
  /\ condCalls = 4 /\ result = terminalValue

\* C7: the timeout error is raised no earlier than the deadline (the clock at
\* entry plus timeoutSeconds) and no later than one poll interval after it,
\* and only after the condition has been evaluated at least once and has
\* last answered not-ready, also when timeoutSeconds is 0.
C7_TimeoutAtDeadline ==
  pollState = "TIMED_OUT" =>
     /\ now >= entered + timeout * 1000
     /\ now <= entered + timeout * 1000 + PollInterval
     /\ condCalls >= 1
     /\ lastCond \in {"None", "False"}
     /\ err.kind = "Timeout"

\* C7 witness: a never-ready condition polled with timeoutSeconds = 0.
C7_Witness ==
  /\ op = "pollUntil" /\ notReadyFor = Never /\ timeout = 0
  /\ pollState = "TIMED_OUT" /\ pc = "raised" /\ condCalls >= 1

\* The steps that may change the state, the result or the evaluation count
\* of a poll.
C8_PollStep ==
  (pollState' # pollState \/ condCalls' # condCalls \/ pollResult' # pollResult) =>
     \/ pollId' = pollId + 1 /\ pollState' = "POLLING" /\ condCalls' = 0
     \/ /\ pollState = "POLLING"
        /\ pollId' = pollId
        /\ \/ /\ pollState' = "POLLING"
              /\ condCalls' = condCalls + 1
              /\ lastCond' \in {"None", "False"}
              /\ pollResult' = pollResult
           \/ /\ pollState' = "SUCCEEDED"
              /\ condCalls' = condCalls + 1
              /\ lastCond' \notin {"None", "False"}
              /\ pollResult' = lastCond'
           \/ /\ pollState' = "TIMED_OUT"
              /\ condCalls' = condCalls
              /\ now > deadline
              /\ lastCond \in {"None", "False"}
              /\ pollResult' = pollResult

\* C8: within one invocation the poll state changes only from POLLING, to
\* SUCCEEDED on an evaluation that yielded a truthy result or to TIMED_OUT
\* when the clock is past the deadline and the last answer was not-ready;
\* in SUCCEEDED and TIMED_OUT neither the state changes nor is the condition
\* evaluated again.
C8_PollStateMachine == [][C8_PollStep]_vars

\* C8 witness: wait_for_history took its assertion step after the poll had
\* SUCCEEDED, and the poll is as it ended.
C8_Witness ==
  /\ op = "wait_for_history" /\ pc = "raised" /\ err.kind = "AssertionError"
  /\ pollState = "SUCCEEDED" /\ pollResult = lastCond /\ condCalls = 2

\* C9: wait_for_history keeps polling exactly while the fetched state is one
\* of running, queued, new, ready, and what it returns is the first fetched
\* state outside these four.
C9_FirstTerminalState ==
  op = "wait_for_history" =>
     /\ (pollState = "POLLING" => firstTerminal = "None")
     /\ (pollState = "POLLING" /\ condCalls > 0 /\ pc # "raised" =>
           fetched \in {"running", "queued", "new", "ready"})
     /\ (pollState = "SUCCEEDED" =>
           /\ pollResult = firstTerminal
           /\ pollResult = fetched
           /\ pollResult \notin {"running", "queued", "new", "ready", "None"})
     /\ (pc = "returned" => result = firstTerminal /\ pollState = "SUCCEEDED")

\* C9 witness: the fourth fetch was the first to answer a non-active state,
\* ok, and ok is returned.
C9_Witness ==
  /\ op = "wait_for_history" /\ pc = "returned" /\ result = "ok"
  /\ condCalls = 4 /\ firstTerminal = "ok"

\* How wait_for_history ends after its poll yielded a state, and where an
\* assertion failure can be in flight.
C10_AssertOk ==
  (op = "wait_for_history" /\ Terminated /\ pollState = "SUCCEEDED") =>
     /\ (pc = "raised") <=> (assert_ok /\ firstTerminal # "ok")
     /\ (pc = "raised" =>
           err.kind = "AssertionError" /\ err.msg = firstTerminal)
     /\ (pc = "returned" => result = firstTerminal)

C10_NoAssertionElsewhere ==
  (op = "wait_for_history" /\ err.kind = "AssertionError") =>
     pc = "raised" /\ pollState = "SUCCEEDED" /\ assert_ok

\* C10: wait_for_history raises an assertion failure exactly when assert_ok
\* is set and the terminal state is not ok; the failure carries that state;
\* it comes after the poll has SUCCEEDED; without assert_ok every terminal
\* state is returned.
C10_AssertionAfterPoll == C10_AssertOk /\ C10_NoAssertionElsewhere

\* C10 witness: the terminal state error with assert_ok set.
C10_Witness ==
  /\ op = "wait_for_history" /\ assert_ok /\ pc = "raised"
  /\ err.kind = "AssertionError" /\ err.msg = "error" /\ fetched = "error"

\* Whether the element of the selector resolved before the first wait is
\* displayed once r forced refreshes have been made.
C11_VisibleAt(r) ==
  /\ visibleAfter # Never
  /\ r >= visibleAfter
  /\ (beta \/ idChangeAt = Never \/ r < idChangeAt)

C11_Returned ==
  InItem /\ pc = "returned" =>
     /\ C11_VisibleAt(refreshes)
     /\ \A r \in 0..(refreshes - 1) : ~C11_VisibleAt(r)
     /\ refreshes <= allowed_force_refreshes
     /\ attempt = refreshes
     /\ visWaits = refreshes + 1

C11_NotGivenUpEarly ==
  InItem /\ pc = "raised" /\ awaiting = "visible" /\ ~refreshFailed =>
     \A r \in 0..allowed_force_refreshes : ~C11_VisibleAt(r)

C11_RefreshStep ==
  refreshes' # refreshes =>
     /\ refreshes' = refreshes + 1
     /\ ~C11_VisibleAt(refreshes)
     /\ refreshes < allowed_force_refreshes
     /\ pollState = "TIMED_OUT"

\* C11: when the element history_item_wait_for waits for is first displayed
\* after exactly k forced refreshes, k <= allowed_force_refreshes, and no
\* refresh click fails, the wait succeeds having triggered exactly k
\* refreshes: it returns with k refreshes made and k + 1 waits, it never
\* gives up while such a k exists, and a refresh is only ever triggered after
\* a wait that timed out, never after the successful one.
C11_SucceedsAfterKRefreshes ==
  /\ [](C11_Returned /\ C11_NotGivenUpEarly)
  /\ [][C11_RefreshStep]_vars

C11_Witness ==
  /\ InItem /\ pc = "returned"
  /\ allowed_force_refreshes = 1 /\ visibleAfter = 1 /\ refreshes = 1
  /\ visWaits = 2 /\ result = selectorId

\* C12: when the awaited element never becomes visible and every refresh
\* click succeeds, history_panel_wait_for_hid_visible has triggered exactly
\* allowed_force_refreshes refreshes and made allowed_force_refreshes + 1
\* timed waits when it raises, and what it raises is the timeout of the last
\* wait with the ids of the content elements then shown put in its message.
C12_ExhaustionTimeout ==
  InItem /\ pc = "raised" /\ awaiting = "visible" /\ ~refreshFailed =>
     /\ refreshes = allowed_force_refreshes
     /\ visWaits = allowed_force_refreshes + 1
     /\ pollState = "TIMED_OUT"
     /\ err.kind = "Timeout"
     /\ err.at = pollId
     /\ err.msg = "Failed waiting on history item to become visible"
     /\ err.info = DomIds

C12_Witness ==
  /\ InItem /\ pc = "raised" /\ awaiting = "visible" /\ ~refreshFailed
  /\ visibleAfter = Never
  /\ allowed_force_refreshes = 1 /\ refreshes = 1 /\ visWaits = 2
  /\ err.kind = "Timeout"

\* C13: at every look for the item's element during the visibility wait,
\* the element looked for is the one resolved from the item's current
\* internal id, also after the id changed during a forced refresh.
C13_ResolvedOnEveryPoll ==
  InItem /\ awaiting = "visible" /\ pc = "p_cond" =>
     selectorId = history_panel_item_component(beta, CurrentId)

C14_IsCallback(e) == e.act = "callback"

\* The positions, counted from zero, of the steps whose title is not skipped.
C14_NotSkipped == {i \in 0..(Len(steps) - 1) : steps[i + 1].title \notin skip_steps}

\* C14: the handle_step calls run_tour has made are for steps whose title is
\* not in skip_steps, each at most once and in script order, each with the
\* step's own zero-based position in the script as index; and when run_tour
\* returns, every such step has had its call.
C14_CallbackPerStep ==
  InTour =>
    LET calls == SelectSeq(log, C14_IsCallback) IN
      /\ \A k \in 1..Len(calls) :
           /\ calls[k].index = calls[k].step
           /\ calls[k].index \in C14_NotSkipped
           /\ \A l \in 1..(k - 1) : calls[l].index < calls[k].index
      /\ pc = "returned" =>
           /\ Len(calls) = Cardinality(C14_NotSkipped)
           /\ \A k \in 1..Len(calls) : calls[k].ok

C14_Witness ==
  /\ InTour /\ pc = "returned" /\ Len(steps) = 3
  /\ steps[2].title \in skip_steps
  /\ LET calls == SelectSeq(log, C14_IsCallback) IN
       /\ Len(calls) = 2 /\ calls[1].index = 0 /\ calls[2].index = 2

C15_NoSubAction ==
  \A k \in 1..Len(log) :
     log[k].act \in {"preclick", "element", "textinsert", "callback", "postclick"}
        => steps[log[k].step + 1].title \notin skip_steps

C15_SkipStep ==
  InTour /\ pc = "t_skip" /\ Step.title \in skip_steps =>
     /\ pc' = "t_loop"
     /\ step_index' = step_index + 1
     /\ log' = log

\* C15: no preclick, element wait, text insertion, callback call or postclick
\* is ever performed for a step whose title is in skip_steps, and from such a
\* step the loop goes straight on to the next one.
C15_SkippedStepUntouched ==
  /\ [](InTour => C15_NoSubAction)
  /\ [][C15_SkipStep]_vars

C15_Witness ==
  /\ InTour /\ pc = "returned" /\ Len(steps) = 2
  /\ steps[1].title = "t1" /\ "t1" \in skip_steps
  /\ steps[2].title = "t2" /\ "t2" \notin skip_steps
  /\ \E k \in 1..Len(log) : log[k].step = 1 /\ log[k].act = "callback"

\* C16: no sleep is made for a step whose title is in skip_steps, and the
\* sleep of a step that is run comes before the step's preclicks.
C16_SleepOnlyIfNotSkipped ==
  InTour =>
    \A k \in 1..Len(log) :
       log[k].act = "sleep" =>
          /\ steps[log[k].step + 1].title \notin skip_steps
          /\ \A l \in 1..(k - 1) : log[l].step < log[k].step

\* The place of a sub-action in the order the claim gives.
C17_Rank(act) ==
  CASE act = "sleep" -> 0
    [] act = "preclick" -> 1
    [] act = "element" -> 2
    [] act = "textinsert" -> 3
    [] act = "callback" -> 4
    [] act = "postclick" -> 5

\* What sub-action act of the step at position i is applied to, in order.
C17_Due(i, act) ==
  CASE act = "preclick" -> steps[i + 1].preclick
    [] act = "postclick" -> steps[i + 1].postclick
    [] act = "element" ->
         IF steps[i + 1].element = "None" THEN <<>> ELSE <<steps[i + 1].element>>
    [] act = "textinsert" ->
         IF steps[i + 1].textinsert = "None" THEN <<>> ELSE <<steps[i + 1].textinsert>>
    [] act = "callback" -> <<tour_callback>>

\* The entries among the first n of the log for sub-action act of step i.
C17_Done(i, act, n) == {l \in 1..n : log[l].step = i /\ log[l].act = act}

\* C17: the sub-action performed last (each one is the last when it has just
\* been performed) comes after every sub-action that precedes it in the order
\* preclicks, element wait, textinsert, callback, postclicks has been performed
\* in full for its step, it is applied to the next selector of its list in
\* list order, and every sub-action of every earlier step that is not skipped
\* has been performed in full before it.
C17_FixedOrder ==
  InTour /\ log # <<>> /\ log[Len(log)].act # "sleep" =>
    LET k == Len(log)
        e == log[k]
        mine == Cardinality(C17_Done(e.step, e.act, k))
    IN
      /\ \A l \in 1..(k - 1) : log[l].step <= e.step /\ log[l].ok
      /\ mine <= Len(C17_Due(e.step, e.act))
      /\ e.arg = C17_Due(e.step, e.act)[mine]
      /\ \A act \in {"preclick", "element", "textinsert", "callback", "postclick"} :
           /\ C17_Rank(act) < C17_Rank(e.act) =>
                Cardinality(C17_Done(e.step, act, k - 1)) = Len(C17_Due(e.step, act))
           /\ \A i \in 0..(e.step - 1) :
                steps[i + 1].title \notin skip_steps =>
                   Cardinality(C17_Done(i, act, k - 1)) = Len(C17_Due(i, act))

C17_Witness ==
  /\ InTour /\ pc = "returned" /\ Len(steps) = 2
  /\ steps[1].title = "t1" /\ steps[2].title = "t1" /\ skip_steps = {}
  /\ Len(log) = 12
  /\ log[1].act = "preclick" /\ log[1].arg = "a"
  /\ log[2].act = "preclick" /\ log[2].arg = "b"
  /\ log[3].act = "element" /\ log[4].act = "textinsert"
  /\ log[5].act = "callback" /\ log[6].act = "postclick"
  /\ log[7].step = 1 /\ log[7].act = "preclick"

C18_Aborted ==
  \A k \in 1..Len(log) :
     ~log[k].ok =>
        /\ k = Len(log)
        /\ pc = "raised"
        /\ err.kind \in {"StaleElement", "NotClickable", "Timeout", "Other"}
        /\ log[k].act \in {"preclick", "postclick", "element"} => err.msg = log[k].arg
        /\ log[k].step = step_index

C18_NothingUndone ==
  /\ Len(log') >= Len(log)
  /\ SubSeq(log', 1, Len(log)) = log
  /\ pc = "raised" => log' = log

\* C18: a sub-action that fails is the last thing run_tour does: the call has
\* raised the error of that sub-action, no sub-action of this or a later step
\* follows it, the step is not run again, and what was performed before stays
\* performed.
C18_FailureAborts ==
  /\ [](InTour => C18_Aborted)
  /\ [][InTour => C18_NothingUndone]_vars

C18_Witness ==
  /\ InTour /\ pc = "raised" /\ Len(steps) = 2 /\ step_index = 0
  /\ Len(log) = 4 /\ log[3].act = "element" /\ log[3].ok
  /\ log[4].act = "textinsert" /\ ~log[4].ok
  /\ steps[1].postclick # <<>>

\* C19: every length wait_length returns is the WaitType's default_length
\* times the session's timeout_multiplier, timeout_for returns the same, and
\* of two sessions, one with twice the multiplier of the other, the second
\* gets exactly twice the length for the same WaitType from either method.
C19_ScalesLinearly ==
  InClock =>
    \A k \in 1..Len(measured) :
       LET m == measured[k] IN
         /\ m.length = WAIT_TYPES[m.wait_type] * m.multiplier
         /\ \A l \in 1..Len(measured) :
              LET n == measured[l] IN
                /\ n.multiplier = m.multiplier => n.length = m.length
                /\ n.multiplier = 2 * m.multiplier => n.length = 2 * m.length

C19_Witness ==
  /\ InClock /\ Len(measured) = 4 /\ asked = "HISTORY_POLL"
  /\ measured[1].fn = "wait_length" /\ measured[1].multiplier = 1
  /\ measured[1].length = 3
  /\ measured[2].fn = "timeout_for" /\ measured[2].length = 3
  /\ measured[3].fn = "wait_length" /\ measured[3].multiplier = 2
  /\ measured[3].length = 6
  /\ measured[4].fn = "timeout_for" /\ measured[4].length = 6

\* C20 as stated: every timed wait issued, sleep or timeout, is resolved from
\* a WaitType and lasts that WaitType's default_length times
\* timeout_multiplier.
C20_Original ==
  \A t \in timed :
     /\ t.intent \in DOMAIN WAIT_TYPES
     /\ t.ms = Seconds(WAIT_TYPES[t.intent] * timeout_multiplier)

\* C20: every timeout the history pollers, the item waiter and the tour
\* interpreter wait with, and every sleep_for, lasts the default_length of the
\* WaitType it names times timeout_multiplier; the other timed waits do not
\* depend on timeout_multiplier: the delay between retry attempts is the sleep
\* argument, the pause between polls is the poll interval, the tour's
\* per-title sleep is the number of seconds sleep_on_steps gives, the pause
\* upload_build begins with is half a second, and a direct pollUntil waits
\* for the timeout its caller passed.
C20_TimedWaits ==
  \A t \in timed :
     CASE t.site = "timeout" /\ op # "pollUntil" ->
            /\ t.intent \in {"JOB_COMPLETION", "DATABASE_OPERATION"}
            /\ t.ms = Seconds(WAIT_TYPES[t.intent] * timeout_multiplier)
       [] t.site = "timeout" /\ op = "pollUntil" ->
            t.intent = "none" /\ t.ms = Seconds(timeout)
       [] t.site = "sleep_for" ->
            /\ t.intent = asked
            /\ t.ms = Seconds(WAIT_TYPES[asked] * timeout_multiplier)
       [] t.site = "retry_sleep" -> t.intent = "none" /\ t.ms = sleep
       [] t.site = "poll_sleep" -> t.intent = "none" /\ t.ms = PollInterval
       [] t.site = "tour_sleep" ->
            /\ t.intent = "none"
            /\ \E title \in DOMAIN sleep_on_steps :
                  t.ms = Seconds(sleep_on_steps[title])
       [] t.site = "pause" -> t.intent = "none" /\ t.ms = 500

C20_Witness ==
  /\ InTour /\ timeout_multiplier = 2
  /\ \E t \in timed : t.site = "timeout" /\ t.ms = 60000
  /\ \E t \in timed : t.site = "retry_sleep" /\ t.ms = 100
  /\ \E t \in timed : t.site = "tour_sleep" /\ t.ms = 1000

\* C21: no step of any operation changes timeout_multiplier, whatever the
\* call goes on to do and whether it returns or raises; the multiplier only
\* differs where a new session is begun with its own. The WaitType catalog is
\* the constant WAIT_TYPES, which no step can alter.
C21_MultiplierReadOnly ==
  [][NewSession \/ timeout_multiplier' = timeout_multiplier]_vars

C21_Witness ==
  /\ InTour /\ pc = "raised" /\ timeout_multiplier = 2 /\ Len(log) >= 3
  /\ \E t \in timed : t.site = "timeout" /\ t.ms = 60000
  /\ \E t \in timed : t.site = "retry_sleep"

C22_Raised ==
  op = "wait_for_history" /\ pc = "raised" /\ err.kind = "Other" =>
     /\ pollState = "POLLING"
     /\ err.msg = "api_get failed"
     /\ result = "None"
     /\ now <= deadline + PollInterval

C22_RaisingStep ==
  op = "wait_for_history" /\ err'.kind = "Other" /\ err.kind # "Other" =>
     /\ pc = "p_cond" /\ pc' = "raised"
     /\ now' = now
     /\ condCalls' = condCalls
     /\ pollState' = "POLLING"

\* C22: when an evaluation of wait_for_history's condition raises, that very
\* step ends the call with the error raised: the poll is neither succeeded nor
\* timed out, no value is returned, no further evaluation or sleep follows,
\* and the error the caller gets is the condition's, not a timeout.
C22_ConditionErrorPropagates ==
  /\ []C22_Raised
  /\ [][C22_RaisingStep]_vars

C22_Witness ==
  /\ op = "wait_for_history" /\ pc = "raised" /\ err.kind = "Other"
  /\ fetched = "running" /\ condCalls = 2 /\ now = PollInterval * 2
  /\ pollState = "POLLING"

\* C23: every timeout waited with by wait_for_history, by
\* wait_for_history_to_have_hid, by the listing and visibility waits of the
\* item waiter and by the tour's waits is resolved from JOB_COMPLETION and is
\* 30 s times timeout_multiplier; a call never uses a second value, also not
\* for the waits made after a forced refresh, and the deadline of each poll is
\* that far from its beginning.
C23_JobCompletionTimeout ==
  /\ op \in {"wait_for_history", "wait_for_history_to_have_hid",
             "history_panel_wait_for_hid_visible", "run_tour"} =>
        /\ \A t \in timed :
             t.site = "timeout" =>
                t.intent = "JOB_COMPLETION" /\ t.ms = 30 * timeout_multiplier * 1000
        /\ pollState # "NONE" =>
             /\ timeout = 30 * timeout_multiplier
             /\ deadline = entered + 30 * timeout_multiplier * 1000
  /\ (op = "history_panel_wait_for_hid_state" /\ pollState # "NONE"
       /\ awaiting \in {"hid", "visible", "state"}) =>
        /\ timeout = 30 * timeout_multiplier
        /\ deadline = entered + 30 * timeout_multiplier * 1000
        /\ \A t \in timed :
             t.site = "timeout" =>
                t.intent = "JOB_COMPLETION" /\ t.ms = 30 * timeout_multiplier * 1000

C23_Witness ==
  /\ InItem /\ awaiting = "visible" /\ pollState = "POLLING"
  /\ refreshes = 1 /\ visWaits = 2 /\ timeout_multiplier = 2
  /\ timeout = 60 /\ deadline = entered + 60000 /\ entered > 60000
  /\ timed = {TimedWait("timeout", "JOB_COMPLETION", 60000),
              TimedWait("poll_sleep", "none", 500)}

C24_Budget ==
  InItem =>
     /\ refreshes <= attempt
     /\ attempt <= allowed_force_refreshes
     /\ visWaits <= refreshes + 1
     /\ visWaits = 0 => attempt = 0
     /\ allowed_force_refreshes = 0 => refreshes = 0 /\ visWaits <= 1

C24_Step ==
  InItem =>
     /\ attempt' # attempt =>
          /\ attempt' = attempt + 1
          /\ pc = "w_except" /\ pollState = "TIMED_OUT" /\ awaiting = "visible"
          /\ visWaits = attempt + 1
          /\ pc' = "w_refresh"
     /\ refreshes' # refreshes =>
          /\ refreshes' = attempt
          /\ pc = "w_refresh" /\ pollState = "TIMED_OUT"
          /\ pc' = "w_wait"
     /\ visWaits' # visWaits =>
          /\ visWaits' = refreshes + 1
          /\ pc = "w_wait"
     /\ pc = "w_except" /\ allowed_force_refreshes = 0 =>
          pc' = "v_except" /\ err' = err /\ err.kind = "Timeout"

\* C24: history_item_wait_for never has made more forced refreshes than
\* allowed_force_refreshes; it counts an attempt and refreshes only from the
\* except clause of a wait that timed out, so never before the first wait and
\* never after a successful one; a refresh made leads to exactly one further
\* wait; and with allowed_force_refreshes = 0 the first timeout is re-raised
\* without any refresh.
C24_RefreshBudget ==
  /\ []C24_Budget
  /\ [][C24_Step]_vars

C24_Witness ==
  /\ InItem /\ allowed_force_refreshes = 2 /\ refreshes = 2 /\ attempt = 2
  /\ visWaits = 3 /\ pc = "v_except" /\ pollState = "TIMED_OUT"
  /\ ~refreshFailed

C25_Exhausted ==
  InRetry /\ pc = "raised" /\ allEligible =>
     /\ fcalls = attempts + 2
     /\ sleeps = attempts + 1
     /\ previous_attempts = attempts + 1
     /\ err.at = fcalls
     /\ ExceptionCheck(exception_check, err)

C25_WithinBudget ==
  InRetry => fcalls <= attempts + 2 /\ sleeps <= attempts + 1

\* C25: when every invocation of f fails with an error exception_check
\* accepts, retry_call_during_transitions has invoked f exactly attempts + 2
\* times and slept exactly attempts + 1 times when it raises, and what it
\* raises is the error of the last invocation; f is never invoked more often
\* than that, and every call comes to an end.
C25_ExactRetryBudget ==
  /\ [](C25_Exhausted /\ C25_WithinBudget)
  /\ (InRetry ~> (InRetry /\ pc \in {"returned", "raised"}))

C25_Witness ==
  /\ InRetry /\ pc = "raised" /\ allEligible /\ attempts = 2
  /\ fcalls = 4 /\ sleeps = 3 /\ err.at = 4
  /\ firstFailure.at = 1 /\ firstFailure.kind # err.kind

C26_StartsAtZero ==
  InWrapped /\ pc = "r_call" /\ fcalls = 0 => previous_attempts = 0

C26_FullBudget ==
  InWrapped =>
     /\ previous_attempts = sleeps
     /\ fcalls <= attempts + 2
     /\ pc = "raised" /\ allEligible => fcalls = attempts + 2
     /\ pc = "returned" => fcalls = succeedAt /\ sleeps = succeedAt - 1

\* C26: every call of a function wrapped by retry_during_transitions begins
\* with previous_attempts = 0, whatever the calls before it absorbed and
\* however they ended: the count is always the number of sleeps of the call
\* under way, a call all of whose invocations fail transiently gets its
\* attempts + 2 invocations, and one whose f succeeds within them returns.
C26_BudgetPerCall ==
  C26_StartsAtZero /\ C26_FullBudget

C26_Witness ==
  /\ InWrapped /\ Len(pastCalls) = 2
  /\ attempts = RETRY_DURING_TRANSITIONS_ATTEMPTS_DEFAULT
  /\ pastCalls[1].outcome = "returned" /\ pastCalls[1].absorbedAll
  /\ pastCalls[2].outcome = "raised" /\ pastCalls[2].absorbedAll
  /\ pc = "returned" /\ fcalls = attempts + 2 /\ sleeps = attempts + 1

C27_Absorbed ==
  InTour =>
     /\ sleeps <= glitches /\ previous_attempts <= sleeps
     /\ (pc = "raised" /\ err.kind \in {"StaleElement", "NotClickable"}) =>
           /\ glitches = attempts + 2
           /\ fcalls = attempts + 2 /\ sleeps = attempts + 1
           /\ \A k \in 1..Len(log) : log[k].act \in {"preclick", "postclick"} => ~log[k].ok
     /\ (\E k \in 1..Len(log) : log[k].act \in {"preclick", "postclick"} /\ log[k].ok) =>
           /\ glitches <= attempts + 1
           /\ sleeps = glitches
           /\ fcalls >= glitches + 1
     /\ err.kind = "Timeout" => pc \in {"t_pre_except", "t_post_except", "raised"}

C27_Step ==
  InTour =>
     /\ pc \in {"t_pre_except", "t_post_except"} =>
          /\ (err.kind \in {"StaleElement", "NotClickable"}
                /\ previous_attempts <= attempts) =>
                /\ pc' = IF pc = "t_pre_except" THEN "t_pre_sleep" ELSE "t_post_sleep"
                /\ log' = log
          /\ err.kind \in {"Timeout", "Other"} =>
                pc' = "raised" /\ sleeps' = sleeps /\ fcalls' = fcalls
     /\ pc \in {"t_pre_sleep", "t_post_sleep"} =>
          /\ pc' = IF pc = "t_pre_sleep" THEN "t_pre_call" ELSE "t_post_call"
          /\ sleeps' = sleeps + 1
          /\ click_index' = click_index /\ step_index' = step_index /\ log' = log
     /\ pc \in {"t_pre_call", "t_post_call"} /\ fcalls' # fcalls =>
          /\ fcalls' = fcalls + 1
          /\ \E t \in timed' : t.site = "timeout" /\ t.intent = "JOB_COMPLETION"
     /\ pc = "t_element" /\ err'.kind = "Timeout" =>
          pc' = "raised" /\ sleeps' = sleeps

\* C27: a stale-element or not-clickable failure of a tour click is followed,
\* while the retry budget lasts, by a sleep and a new invocation of the
\* clickable wait and the click for the same selector, and once an invocation
\* succeeds the tour goes on; such a failure ends the tour only when the
\* attempts + 2 invocations of the budget are used up. A timeout of the
\* clickable wait or of the wait for step.element is never slept on: run_tour
\* raises it.
C27_ClickRetried ==
  /\ []C27_Absorbed
  /\ [][C27_Step]_vars

C27_Witness ==
  /\ InTour /\ pc = "returned" /\ glitches = attempts + 1 /\ sleeps = attempts + 1
  /\ fcalls = attempts + 4
  /\ Len(log) = 6 /\ \A k \in 1..6 : log[k].ok
  /\ log[1].act = "preclick" /\ log[6].act = "postclick"

C28_ListingPhase ==
  InItem =>
     /\ awaiting \in {"none", "hid"} =>
          /\ visWaits = 0 /\ refreshes = 0 /\ attempt = 0
          /\ pc # "w_wait" => selectorId = "None"
     /\ selectorId # "None" => hid \in hids
     /\ (pc = "raised" /\ awaiting = "hid" /\ err.kind = "Timeout") =>
          /\ selectorId = "None"
          /\ hid \notin hids
          /\ err.msg = "Timeout waiting for history to have hid - have hids"
          /\ err.info = hids
          /\ pollState = "TIMED_OUT" /\ err.at = pollId /\ pollId = 1

C28_Step ==
  InItem =>
     /\ selectorId' # selectorId =>
          /\ pc = "v_resolve" /\ awaiting = "hid"
          /\ pollState = "SUCCEEDED" /\ hid \in hids
     /\ visWaits' # visWaits => selectorId # "None" /\ pc = "w_wait"
     /\ pc = "hh_except" => pc' = "raised"

\* C28: history_panel_wait_for_hid_visible resolves the item and begins the
\* visibility wait only after the wait for the content listing to have the
\* hid has succeeded; when that wait times out the call raises from there,
\* with no item resolved, no visibility wait and no refresh made, and the
\* timeout it raises carries the hids the listing then has.
C28_ListingFirst ==
  /\ []C28_ListingPhase
  /\ [][C28_Step]_vars

C28_Witness ==
  /\ InItem /\ pc = "raised" /\ awaiting = "hid" /\ err.kind = "Timeout"
  /\ ~listed /\ allowed_force_refreshes = 2 /\ timeout_multiplier = 2
  /\ now > 60000 /\ err.info = {} /\ selectorId = "None"

C30_Failed ==
  InItem /\ refreshFailed =>
     /\ pc \in {"v_except", "raised"}
     /\ attempt = refreshes + 1 /\ visWaits = attempt
     /\ pollState = "TIMED_OUT"
     /\ pc = "raised" =>
          \/ /\ err.kind = "Timeout"
             /\ err.msg = "Failed waiting on history item to become visible"
             /\ err.info = DomIds
          \/ /\ err.kind = "Other"
             /\ err.msg = "refresh_button"

C30_Step ==
  InItem /\ (refreshFailed \/ refreshFailed') =>
     /\ visWaits' = visWaits /\ refreshes' = refreshes /\ attempt' = attempt
     /\ pc' \in {"v_except", "raised"}
     /\ err'.kind = "Timeout" => pc' = "v_except" \/ pc = "v_except"

\* C30: when the refresh click of history_item_wait_for raises, no wait and no
\* refresh follows, whatever is left of allowed_force_refreshes; an error that
\* is not a timeout is raised as it is, and a timeout is raised by
\* history_panel_wait_for_hid_visible with the same message and element ids
\* as a timeout of the visibility wait.
C30_RefreshFailurePropagates ==
  /\ []C30_Failed
  /\ [][C30_Step]_vars

C30_Witness ==
  /\ InItem /\ refreshFailed /\ pc = "raised" /\ err.kind = "Timeout"
  /\ allowed_force_refreshes = 2 /\ attempt = 1 /\ refreshes = 0 /\ visWaits = 1
  /\ err.msg = "Failed waiting on history item to become visible"

C29_Phases ==
  InState =>
     /\ visibilityRefreshes = Never =>
          /\ refreshes <= allowed_force_refreshes
          /\ attempt \in {refreshes, refreshes + 1}
     /\ visibilityRefreshes # Never =>
          /\ visibilityRefreshes <= allowed_force_refreshes
          /\ refreshes - visibilityRefreshes <= allowed_force_refreshes
          /\ refreshes <= 2 * allowed_force_refreshes
          /\ attempt \in {refreshes - visibilityRefreshes,
                          refreshes - visibilityRefreshes + 1}
          /\ (pc = "s_except" /\ ~refreshFailed) =>
               /\ refreshes - visibilityRefreshes = allowed_force_refreshes
               /\ attempt = allowed_force_refreshes

C29_Step ==
  InState =>
     /\ visibilityRefreshes' # visibilityRefreshes =>
          /\ pc = "s_select" /\ visibilityRefreshes = Never
          /\ visibilityRefreshes' = refreshes /\ attempt' = 0
     /\ pc = "w_except" /\ attempt < allowed_force_refreshes => pc' = "w_refresh"

\* C29: history_panel_wait_for_hid_state gives the wait for the item to be
\* visible and the wait for it to show the state allowed_force_refreshes
\* refreshes each: at most twice as many in one call, and the wait for the
\* state times out only after allowed_force_refreshes refreshes of its own,
\* whatever the wait for visibility has used.
C29_BudgetPerPhase ==
  /\ []C29_Phases
  /\ [][C29_Step]_vars

C29_Witness ==
  /\ InState /\ pc = "returned" /\ allowed_force_refreshes = 2
  /\ visibilityRefreshes = 2 /\ refreshes = 4
  /\ result = history_item_selector_state(beta, selectorId)

C31_Step ==
  InTour =>
     /\ (pc = "t_text" /\ Step.textinsert # "None" /\ Step.element = "None") =>
          /\ pc' = "raised"
          /\ err' = [kind |-> "Other", msg |-> "UnboundLocalError", at |-> 0,
                     info |-> {}]
          /\ log' = Append(log, [step |-> step_index, act |-> "textinsert",
                                 arg |-> Step.textinsert, index |-> step_index,
                                 ok |-> FALSE])
          /\ Len(log) >= Len(Step.preclick)
          /\ \A j \in 1..Len(Step.preclick) :
                log[Len(log) - Len(Step.preclick) + j] =
                  [step |-> step_index, act |-> "preclick",
                   arg |-> Step.preclick[j], index |-> step_index, ok |-> TRUE]
          /\ \A k \in 1..Len(log) :
                log[k].step = step_index => log[k].act \in {"sleep", "preclick"}
     /\ pc # "raised"

\* C31: a step with textinsert and without element fails when its text is to
\* be inserted: its preclicks have been made, handle_step has not been called
\* for it, and run_tour ends with the error, so that neither a postclick of
\* the step nor a later step runs.
C31_TextInsertWithoutElement == [][C31_Step]_vars

C31_Witness ==
  /\ InTour /\ pc = "raised" /\ err.msg = "UnboundLocalError"
  /\ step_index = 1 /\ Len(steps) = 3 /\ Step.postclick = <<"c">>
  /\ log[Len(log)].act = "textinsert" /\ ~log[Len(log)].ok
  /\ log[Len(log) - 1].act = "preclick" /\ log[Len(log) - 1].step = 1
  /\ \E k \in 1..Len(log) : log[k].act = "callback" /\ log[k].step = 0

C32_CallbackSteps ==
  {log[k].step : k \in {j \in 1..Len(log) : log[j].act = "callback"}}

C32_CallbackDue ==
  \/ pc \in {"t_post_call", "t_post_except", "t_post_sleep", "t_done"}
  \/ /\ pc = "raised" /\ Len(log) > 0
     /\ log[Len(log)].step = step_index
     /\ log[Len(log)].act \in {"callback", "postclick"}

C32_Invoked ==
  InTour =>
     /\ C32_CallbackSteps =
          {i \in 0..(step_index - 1) : steps[i + 1].title \notin skip_steps}
            \cup (IF C32_CallbackDue THEN {step_index} ELSE {})
     /\ (pc = "raised" /\ Len(log) > 0 /\ log[Len(log)].act = "postclick") =>
          /\ ~log[Len(log)].ok
          /\ step_index \in C32_CallbackSteps

C32_Step ==
  (InTour /\ Len(log') > Len(log) /\ log'[Len(log')].act = "callback") =>
     /\ pc = "t_callback"
     /\ Step.title \notin skip_steps
     /\ LET own == SelectSeq(log, LAMBDA e : e.step = step_index /\ e.act # "sleep")
            pre == [j \in 1..Len(Step.preclick) |->
                      [step |-> step_index, act |-> "preclick",
                       arg |-> Step.preclick[j], index |-> step_index, ok |-> TRUE]]
            elem == IF Step.element = "None" THEN <<>>
                    ELSE <<[step |-> step_index, act |-> "element",
                            arg |-> Step.element, index |-> step_index, ok |-> TRUE]>>
            text == IF Step.textinsert = "None" THEN <<>>
                    ELSE <<[step |-> step_index, act |-> "textinsert",
                            arg |-> Step.textinsert, index |-> step_index,
                            ok |-> TRUE]>>
        IN own = pre \o elem \o text

\* C32: handle_step is called for a step exactly when the step is not skipped
\* and its preclicks, its element wait and its text insertion have all
\* succeeded; it is called before the step's postclicks, so that when a
\* postclick fails handle_step has been called for that step and for every
\* earlier step that was not skipped.
C32_CallbackIffReached ==
  /\ []C32_Invoked
  /\ [][C32_Step]_vars

C32_Witness ==
  /\ InTour /\ pc = "raised" /\ step_index = 2 /\ skip_steps = {"t2"}
  /\ log[Len(log)].act = "postclick" /\ ~log[Len(log)].ok
  /\ C32_CallbackSteps = {0, 2}

C33_Counts ==
  InNested =>
     /\ fcalls <= (attempts + 2) * (attempts + 2)
     /\ outerCalls <= attempts + 2
     /\ (pc = "raised" /\ allEligible) =>
          /\ fcalls = (attempts + 2) * (attempts + 2)
          /\ outerCalls = attempts + 2
          /\ outerSleeps = attempts + 1
          /\ sleeps = (attempts + 1) * (attempts + 2)
          /\ err.kind \in {"StaleElement", "NotClickable"}
          /\ err.at = fcalls
          /\ attempts = 10 => fcalls = 144

\* C33: a wrapped method that calls a wrapped method retries each of the inner
\* call's failures: when the innermost action always fails with an error of a
\* page in transition, it is invoked (attempts + 2) * (attempts + 2) times
\* before the error leaves the outer method, 144 times with attempts = 10.
C33_NestedBudget == []C33_Counts

C33_Witness ==
  /\ InNested /\ pc = "raised" /\ allEligible
  /\ attempts = 10 /\ fcalls = 144 /\ outerCalls = 12

C34_Bound ==
  InLogin =>
     /\ submissions <= retries + depth + 1
     /\ notLoggedIns <= submissions
     /\ loggedInAt # Never =>
          /\ submissions = loggedInAt
          /\ pc \in {"l_logged_in", "returned"}
     /\ (pc = "raised" /\ err.kind = "NotLoggedIn") =>
          /\ retries = 0
          /\ notLoggedIns = submissions
          /\ submissions = depth + 1

C34_Step ==
  InLogin =>
     /\ retries' + depth' = retries + depth
     /\ submissions' # submissions =>
          /\ submissions' = submissions + 1
          /\ notLoggedIns = submissions /\ depth = submissions
          /\ loggedInAt = Never
     /\ pc = "l_except" =>
          /\ err.kind = "NotLoggedIn"
          /\ retries > 0 => pc' = "start" /\ retries' = retries - 1
          /\ retries = 0 => pc' = "raised" /\ err' = err

C34_Done == pc \in {"returned", "raised"}

\* C34: submit_login with retries = r clicks the submit button at most r + 1
\* times and ends: each NotLoggedInException is answered by one call with one
\* retry less, it leaves submit_login only when retries is 0, and after a
\* wait_for_logged_in that returned the form is not submitted again.
C34_LoginRetries ==
  /\ []C34_Bound
  /\ [][C34_Step]_vars
  /\ <>C34_Done

C34_Witness ==
  /\ InLogin /\ pc = "returned" /\ assert_valid
  /\ submissions = 3 /\ notLoggedIns = 2 /\ loggedInAt = 3
  /\ retries = 2 /\ depth = 0

C35_Failure ==
  InLogin =>
     /\ pc = "l_api" => err.kind = "Timeout" /\ err.msg = "logged_in_only"
     /\ pc = "l_except" => err.kind = "NotLoggedIn" /\ "username" \notin err.info
     /\ (pc = "raised" /\ err.kind = "Timeout" /\ err.msg # "login form") =>
          /\ err.msg = "Failed waiting for masthead to update for login"
          /\ "username" \in err.info
          /\ loggedInAt = Never
     /\ (pc = "raised" /\ err.kind = "NotLoggedIn") => "username" \notin err.info

C35_Step ==
  (InLogin /\ pc = "l_api") =>
     /\ pc' \in {"l_except", "raised"}
     /\ err'.kind \in {"Timeout", "NotLoggedIn", "Other"}
     /\ err'.at = err.at
     /\ err'.kind = "Timeout" <=> (err'.kind # "Other" /\ "username" \in err'.info)
     /\ err'.kind = "Timeout" =>
          /\ pc' = "raised"
          /\ err'.msg = "Failed waiting for masthead to update for login"
     /\ err'.kind = "NotLoggedIn" => pc' = "l_except"
     /\ err'.kind = "Other" => pc' = "raised"
     /\ submissions' = submissions /\ retries' = retries /\ loggedInAt' = loggedInAt

\* C35: when the wait for the masthead of a logged-in user times out,
\* wait_for_logged_in raises: a timeout with its message extended when the
\* user API answers with a username, which submit_login lets pass whatever
\* retries it has, and NotLoggedInException when the answer has none, the one
\* exception submit_login answers with a resubmission. The call never goes on
\* as if the user were logged in.
C35_TimeoutConverted ==
  /\ []C35_Failure
  /\ [][C35_Step]_vars

C35_Witness ==
  /\ InLogin /\ pc = "raised" /\ err.kind = "Timeout"
  /\ err.msg = "Failed waiting for masthead to update for login"
  /\ "username" \in err.info
  /\ submissions = 2 /\ notLoggedIns = 1 /\ retries = 2 /\ depth = 1

C36_Body ==
  InUpload =>
     /\ clicks <= 2 /\ absentWaits <= 2 /\ absentWaits <= clicks
     /\ clicks = 2 => firstWaitTimedOut /\ absentWaits >= 1
     /\ pc = "u_click2" =>
          /\ firstWaitTimedOut /\ clicks = 1 /\ absentWaits = 1
          /\ err.kind = "Timeout"
     /\ (pc = "raised" /\ err.kind = "Timeout" /\ err.msg = "absent_or_hidden") =>
          /\ clicks = 2 /\ absentWaits = 2 /\ err.at = 2

C36_Step ==
  InUpload =>
     /\ clicks' # clicks =>
          \/ clicks' = 0 /\ pc \in {"start", "u_body"}
          \/ clicks' = clicks + 1 /\ pc \in {"u_click1", "u_click2"}
     /\ (pc = "u_wait2" /\ err' # err /\ err'.kind = "Timeout") =>
          pc' = "u_except" /\ clicks' = clicks
     /\ (pc = "u_except" /\ err.kind = "Timeout") =>
          pc' = "raised" /\ err' = err /\ fcalls' = fcalls /\ clicks' = clicks

\* C36: one execution of the body of upload_build clicks the build button at
\* most twice, the second time only after the first wait for the button to
\* disappear has timed out; when the second wait times out too, the timeout
\* leaves the body without another click, and the retry around upload_build
\* raises it without executing the body again.
C36_AtMostTwoClicks ==
  /\ []C36_Body
  /\ [][C36_Step]_vars

C36_Witness ==
  /\ InUpload /\ pc = "raised" /\ err.kind = "Timeout"
  /\ err.msg = "absent_or_hidden"
  /\ clicks = 2 /\ absentWaits = 2 /\ firstWaitTimedOut
  /\ fcalls = 2 /\ previous_attempts = 1

====
